---------------------------- MODULE Spec2Model ----------------------------
(***************************************************************************)
(* A model of the learning-progress tracker: the user_progress / profiles  *)
(* / catalog tables of the managed store with their constraints and row    *)
(* level policies, the progressService gateway, the QuestionItem and       *)
(* BulkActions components, the DashboardView page, and the aggregation     *)
(* functions (streaks, completion rates).                                  *)
(*                                                                         *)
(* Encodings.  Time is counted in hours since an epoch; a local calendar   *)
(* day is an integer index and the zone decides at which hour each day     *)
(* starts.  A nullable column or an optional JS property holds NULL when    *)
(* it is null / undefined.  Notes are numbers: 0 is the empty string ''.   *)
(***************************************************************************)
EXTENDS Integers, Sequences, FiniteSets, TLC

VARIABLES
    now,            \* Date.now(), in hours
    tz,             \* the browser's time zone: [kind, day]
    userProgress,   \* the page's userProgress state (a list of records)
    streakData,     \* AdvancedFeatures' streakData state
    rows,           \* the user_progress table: a set of rows
    nextId,         \* the next primary key gen_random_uuid() hands out
    catalog,        \* the ids of the rows of the questions table
    calls,          \* the progressService.updateProgress calls, by slot
    questions,      \* the page's questions state (a list of question ids)
    loading,        \* the page's loading state
    fetches,        \* the page's fetchData runs, by slot
    notices,        \* realtime notifications not yet delivered to the page
    item,           \* the state of the QuestionItem of each question
    ops,            \* the QuestionItem.updateProgress runs, by slot
    bulk,           \* the BulkActions component and its request
    profiles,       \* the profiles table: account -> profile, or NoProfile
    sheets,         \* the ids of the rows of the sheets table
    audit,          \* the catalog writes the store accepted: who, with which profile
    achievements,   \* AdvancedFeatures' achievements state
    goals,          \* AdvancedFeatures' goals state
    filters,        \* SearchAndFilter's state: the term, the selections, the sort
    filteredQuestions,  \* the list SearchAndFilter last handed to its parent
    panel           \* AdminPanel: its user, its state and its two requests

-----------------------------------------------------------------------------
(* Bounds *)

MaxDay == 4          \* local calendar days 0 .. MaxDay
MaxProgress == 3     \* longest userProgress list of the streak specification
MaxCalls == 2        \* progressService.updateProgress calls made
MaxRows == 3         \* primary keys the store hands out
MaxTime == 1         \* largest time_spent a caller supplies
MaxOps == 1          \* QuestionItem.updateProgress runs
MaxFetches == 2      \* fetchData runs of the page, the one on mount included
MaxBulk == 2         \* bulk actions performed
MaxSpent == 1        \* seconds a stopwatch counts up to
MaxQuestions == 3    \* longest question list handed to the aggregation functions
MaxRecords == 2      \* longest userProgress list of the charts specification
MaxEdits == 2        \* fields of SearchAndFilter set away from their initial value

(* Program constants *)

NULL == -1
HoursPerDay == 24

-----------------------------------------------------------------------------
(* JS Date in a local time zone *)

\* The zone: no daylight saving, or one transition during local day tz.day
\* ("spring": that day lasts 23 hours, "fall": 25 hours).
Zones ==
    {[kind |-> "none", day |-> 0]} \cup
    [kind : {"spring", "fall"}, day : 1..MaxDay]

\* Hour at which local day d starts (local midnight): new Date(dateString).getTime()
DayStart(d) ==
    HoursPerDay * d +
        (IF tz.kind = "none" \/ d <= tz.day THEN 0
         ELSE IF tz.kind = "spring" THEN -1 ELSE 1)

\* new Date(t).toDateString(): the local calendar day holding hour t
toDateString(t) ==
    CHOOSE d \in -2..(MaxDay + 2) : DayStart(d) <= t /\ t < DayStart(d + 1)

-----------------------------------------------------------------------------
(* Array helpers *)

includes(s, x) == \E i \in 1..Len(s) : s[i] = x

\* arr.filter((x, index) => arr.indexOf(x) === index)
RECURSIVE dedupe(_)
dedupe(s) ==
    IF s = <<>> THEN <<>>
    ELSE LET rest == dedupe(SubSeq(s, 1, Len(s) - 1))
             x == s[Len(s)]
         IN IF includes(rest, x) THEN rest ELSE Append(rest, x)

\* insertion of x into a list sorted by descending key; equal keys keep
\* their order (Array.prototype.sort is stable)
RECURSIVE insertDesc(_, _)
insertDesc(s, x) ==
    IF s = <<>> THEN <<x>>
    ELSE IF DayStart(x) > DayStart(Head(s)) THEN <<x>> \o s
    ELSE <<Head(s)>> \o insertDesc(Tail(s), x)

\* .sort((a, b) => new Date(b).getTime() - new Date(a).getTime())
RECURSIVE sortDesc(_)
sortDesc(s) ==
    IF s = <<>> THEN <<>>
    ELSE insertDesc(sortDesc(SubSeq(s, 1, Len(s) - 1)), s[Len(s)])

Max(a, b) == IF a >= b THEN a ELSE b

-----------------------------------------------------------------------------
(* AdvancedFeatures.calculateStreaks *)

\* userProgress.filter(p => p.completed)
\*   .map(p => new Date(p.completed_at).toDateString())
completedDateStringsAll(progress) ==
    LET kept == SelectSeq(progress, LAMBDA p : p.completed)
    IN [i \in 1..Len(kept) |-> toDateString(kept[i].completed_at)]

\* userProgress.filter(p => p.completed && p.completed_at)
\*   .map(p => new Date(p.completed_at).toDateString())
RECURSIVE completedDateStrings(_)
completedDateStrings(progress) ==
    IF progress = <<>> THEN <<>>
    ELSE LET p == Head(progress)
             rest == completedDateStrings(Tail(progress))
         IN IF p.completed /\ p.completed_at # NULL
            THEN <<toDateString(p.completed_at)>> \o rest
            ELSE rest

completedDates(progress) == sortDesc(dedupe(completedDateStrings(progress)))

\* while (completedDates.includes(checkDate.toDateString())) {
\*   currentStreak++; checkDate.setDate(checkDate.getDate() - 1) }
RECURSIVE walkBack(_, _)
walkBack(dates, checkDate) ==
    IF includes(dates, checkDate) THEN 1 + walkBack(dates, checkDate - 1) ELSE 0

yesterdayOf(t) == toDateString(t - HoursPerDay)

currentStreakOf(progress, t) ==
    LET dates == completedDates(progress)
        today == toDateString(t)
        yesterday == yesterdayOf(t)
    IN IF includes(dates, today) \/ includes(dates, yesterday)
       THEN walkBack(dates, IF includes(dates, today) THEN today ELSE yesterday)
       ELSE 0

\* (currentDate.getTime() - nextDate.getTime()) / (1000 * 60 * 60 * 24) === 1
dayDiffIsOne(a, b) == DayStart(a) - DayStart(b) = HoursPerDay

\* the inner while loop: j runs from i + 1 while consecutive entries differ by one day
RECURSIVE innerRun(_, _)
innerRun(dates, j) ==
    IF j <= Len(dates) /\ dayDiffIsOne(dates[j - 1], dates[j])
    THEN 1 + innerRun(dates, j + 1)
    ELSE 0

tempStreakAt(dates, i) ==
    IF i < Len(dates) /\ dayDiffIsOne(dates[i], dates[i + 1])
    THEN 1 + innerRun(dates, i + 1)
    ELSE 1

RECURSIVE longestFrom(_, _)
longestFrom(dates, i) ==
    IF i > Len(dates) THEN 0
    ELSE Max(tempStreakAt(dates, i), longestFrom(dates, i + 1))

longestStreakOf(progress) == longestFrom(completedDates(progress), 1)

calculateStreaks(progress, t) ==
    LET dates == completedDates(progress)
    IN [currentStreak |-> currentStreakOf(progress, t),
        longestStreak |-> longestStreakOf(progress),
        lastActivity |-> IF dates = <<>> THEN NULL ELSE dates[1]]

-----------------------------------------------------------------------------
(* The user_progress table and the requests PostgREST serves on it *)

Users == {"u1"}
QuestionSeq == <<"q1", "q2">>      \* the questions, by order_index
QuestionIds == {QuestionSeq[i] : i \in 1..Len(QuestionSeq)}
Ord(q) == CHOOSE i \in 1..Len(QuestionSeq) : QuestionSeq[i] = q

Columns == {"completed", "marked_for_revision", "note", "time_spent", "completed_at"}
\* completed BOOLEAN NOT NULL DEFAULT false, marked_for_revision likewise;
\* note, time_spent and completed_at are nullable and have no default
NotNullColumns == {"completed", "marked_for_revision"}
ColumnDefault(c) == IF c \in NotNullColumns THEN FALSE ELSE NULL

\* A JS object literal sent to the store: val holds the keys with a value,
\* undef the keys whose value is undefined.  JSON.stringify drops the latter
\* from the request body.
Obj(val, undef) == [val |-> val, undef |-> undef]
EmptyVal == [k \in {} |-> NULL]
Keys(o) == DOMAIN o.val \cup o.undef

\* { ...a, ...b }
Spread(a, b) ==
    [val |-> [k \in DOMAIN b.val \cup (DOMAIN a.val \ b.undef) |->
                 IF k \in DOMAIN b.val THEN b.val[k] ELSE a.val[k]],
     undef |-> b.undef \cup (a.undef \ DOMAIN b.val)]

RowsOf(u, q) == {r \in rows : r.user_id = u /\ r.question_id = q}

\* UNIQUE(user_id, question_id)
UniqueViolation(u, q) == RowsOf(u, q) # {}

\* question_id UUID NOT NULL REFERENCES public.questions(id)
ForeignKeyViolation(q) == q \notin catalog

\* The columns a request names.  For an array payload supabase-js lists every
\* key of the objects in ?columns=, the keys whose value is undefined
\* included; for a single object the request names the keys of its body.
NamedColumns(o, isArray) == IF isArray THEN Keys(o) ELSE DOMAIN o.val

\* The row an INSERT builds: a named column that the body lacks is NULL, a
\* column that is not named takes its default.
NewRow(id, u, q, o, named) ==
    [c \in Columns |->
        IF c \in DOMAIN o.val THEN o.val[c]
        ELSE IF c \in named THEN NULL
        ELSE ColumnDefault(c)]
    @@ [id |-> id, user_id |-> u, question_id |-> q]

NotNullViolation(o, named) == (named \ DOMAIN o.val) \cap NotNullColumns # {}

\* an UPDATE that writes the whole row: the columns the body lacks fall back
\* to their defaults
UpdatedRowReplacing(r, o) ==
    [c \in DOMAIN r |->
        IF c \in DOMAIN o.val THEN o.val[c]
        ELSE IF c \in Columns THEN ColumnDefault(c)
        ELSE r[c]]

\* UPDATE ... SET: only the keys of the request body change
UpdatedRow(r, o) ==
    [c \in DOMAIN r |-> IF c \in DOMAIN o.val THEN o.val[c] ELSE r[c]]

\* INSERT ... ON CONFLICT (user_id, question_id) DO UPDATE SET: every named
\* column takes the value of the proposed row
MergedRow(r, o, named) ==
    [c \in DOMAIN r |->
        IF c \in DOMAIN o.val THEN o.val[c]
        ELSE IF c \in named THEN NULL
        ELSE r[c]]

\* what the client keeps of a row
LocalOf(r) ==
    [question_id |-> r.question_id, completed |-> r.completed,
     marked_for_revision |-> r.marked_for_revision, note |-> r.note,
     time_spent |-> r.time_spent, completed_at |-> r.completed_at]

NoData == [id |-> 0]

-----------------------------------------------------------------------------
(* progressService *)

CallIds == 1..MaxCalls

IdleCall ==
    [pc |-> "idle", user |-> "u1", q |-> "q1", updates |-> Obj(EmptyVal, {}),
     existing |-> FALSE, result |-> "none", data |-> NoData, alone |-> FALSE]

\* markCompleted(userId, questionId, timeSpent?)
markCompletedUpdates(timeSpent) ==
    IF timeSpent = NULL
    THEN Obj([completed |-> TRUE, completed_at |-> now], {"time_spent"})
    ELSE Obj([completed |-> TRUE, completed_at |-> now, time_spent |-> timeSpent], {})

markForRevisionUpdates(marked) == Obj([marked_for_revision |-> marked], {})
updateNoteUpdates(note) == Obj([note |-> note], {})
updateTimeSpentUpdates(timeSpent) == Obj([time_spent |-> timeSpent], {})

\* the updates the callers of the service specification pass
ServiceUpdates ==
    {markCompletedUpdates(NULL), markForRevisionUpdates(TRUE), updateNoteUpdates(1)}
    \cup {updateTimeSpentUpdates(t) : t \in 1..MaxTime}

\* the call is entered: updateProgress(userId, questionId, updates)
updateProgressBegin(c, u, q, updates) ==
    /\ calls[c].pc = "idle"
    /\ calls' = [d \in CallIds |->
          IF d = c
          THEN [pc |-> "read", user |-> u, q |-> q, updates |-> updates,
                existing |-> FALSE, result |-> "none", data |-> NoData,
                alone |-> \A e \in CallIds \ {c} : calls[e].pc \in {"idle", "done"}]
          ELSE IF calls[d].pc \in {"read", "write"}
               THEN [calls[d] EXCEPT !.alone = FALSE]
               ELSE calls[d]]

\* const { data: existing } = await this.getQuestionProgress(userId, questionId)
updateProgressRead(c) ==
    /\ calls[c].pc = "read"
    /\ calls' = [calls EXCEPT ![c].pc = "write",
                              ![c].existing = RowsOf(calls[c].user, calls[c].q) # {}]
    /\ UNCHANGED <<rows, nextId>>

\* .update(updates).eq('user_id', ..).eq('question_id', ..).select().single()
serviceUpdate(c) ==
    LET u == calls[c].user
        q == calls[c].q
        hit == RowsOf(u, q)
    IN /\ rows' = {IF r \in hit THEN UpdatedRow(r, calls[c].updates) ELSE r : r \in rows}
       /\ calls' = [calls EXCEPT
             ![c].pc = "done",
             ![c].result = IF Cardinality(hit) = 1 THEN "ok" ELSE "norow",
             ![c].data = IF Cardinality(hit) = 1
                         THEN UpdatedRow(CHOOSE r \in hit : TRUE, calls[c].updates)
                         ELSE NoData]
       /\ UNCHANGED nextId

\* .insert([{ user_id, question_id, ...updates }]).select().single()
serviceInsert(c) ==
    LET u == calls[c].user
        q == calls[c].q
        o == calls[c].updates
        named == NamedColumns(o, TRUE)
    IN IF UniqueViolation(u, q) \/ ForeignKeyViolation(q) \/ NotNullViolation(o, named)
       THEN /\ calls' = [calls EXCEPT ![c].pc = "done",
                                      ![c].result =
                                          IF NotNullViolation(o, named) THEN "notnull"
                                          ELSE IF ForeignKeyViolation(q) THEN "fk"
                                          ELSE "conflict"]
            /\ UNCHANGED <<rows, nextId>>
       ELSE /\ nextId <= MaxRows
            /\ rows' = rows \cup {NewRow(nextId, u, q, o, named)}
            /\ nextId' = nextId + 1
            /\ calls' = [calls EXCEPT ![c].pc = "done", ![c].result = "ok",
                                      ![c].data = NewRow(nextId, u, q, o, named)]

\* if (existing) { update } else { insert }
updateProgressWrite(c) ==
    /\ calls[c].pc = "write"
    /\ IF calls[c].existing THEN serviceUpdate(c) ELSE serviceInsert(c)

-----------------------------------------------------------------------------
(* The progress prop a component reads from the page's userProgress *)

\* userProgress.find(p => p.question_id === questionId)
hasProgress(q) == \E i \in 1..Len(userProgress) : userProgress[i].question_id = q

findProgress(q) ==
    userProgress[CHOOSE i \in 1..Len(userProgress) :
                    /\ userProgress[i].question_id = q
                    /\ \A j \in 1..(i - 1) : userProgress[j].question_id # q]

\* progress?.completed || false
propCompleted(q) == IF hasProgress(q) THEN findProgress(q).completed ELSE FALSE
\* progress?.marked_for_revision || false
propRevision(q) == IF hasProgress(q) THEN findProgress(q).marked_for_revision ELSE FALSE
\* progress?.note
propNote(q) == IF hasProgress(q) THEN findProgress(q).note ELSE NULL
\* progress?.time_spent || 0
propTimeSpent(q) ==
    IF hasProgress(q) /\ findProgress(q).time_spent # NULL
    THEN findProgress(q).time_spent ELSE 0

\* { ...entry, ...updates } on a userProgress entry
mergeEntry(entry, o) ==
    [k \in DOMAIN entry |->
        IF k \in DOMAIN o.val THEN o.val[k]
        ELSE IF k \in o.undef THEN NULL
        ELSE entry[k]]

firstIndex(q) ==
    CHOOSE i \in 1..Len(userProgress) :
        /\ userProgress[i].question_id = q
        /\ \A j \in 1..(i - 1) : userProgress[j].question_id # q

-----------------------------------------------------------------------------
(* QuestionItem *)

OpIds == 1..MaxOps

IdleOp ==
    [pc |-> "idle", q |-> "q1", payload |-> Obj(EmptyVal, {}),
     updates |-> Obj(EmptyVal, {}), result |-> "none"]

Unmounted == [mounted |-> FALSE, isTimerRunning |-> FALSE, timeSpent |-> 0]

\* the object QuestionItem.updateProgress hands to upsert()
itemPayload(q, updates) ==
    Spread(
        IF propNote(q) = NULL
        THEN Obj([completed |-> propCompleted(q),
                  marked_for_revision |-> propRevision(q),
                  time_spent |-> propTimeSpent(q)], {"note"})
        ELSE Obj([completed |-> propCompleted(q),
                  marked_for_revision |-> propRevision(q),
                  note |-> propNote(q),
                  time_spent |-> propTimeSpent(q)], {}),
        updates)

\* updateProgress(updates) up to the await: the upsert request leaves
itemUpdateProgress(q, updates) ==
    \E o \in OpIds :
        /\ ops[o].pc = "idle"
        /\ \A d \in 1..(o - 1) : ops[d].pc # "idle"
        /\ ops' = [ops EXCEPT ![o] = [pc |-> "sent", q |-> q,
                                      payload |-> itemPayload(q, updates),
                                      updates |-> updates, result |-> "none"]]

toggleCompletionUpdates(q) ==
    IF ~propCompleted(q)
    THEN Obj([completed |-> TRUE, completed_at |-> now], {})
    ELSE Obj([completed |-> FALSE], {"completed_at"})

toggleRevisionUpdates(q) == Obj([marked_for_revision |-> ~propRevision(q)], {})

\* the component is rendered for a question of the list: useState initial values
itemMount(q) ==
    /\ ~loading
    /\ includes(questions, q)
    /\ ~item[q].mounted
    /\ item' = [item EXCEPT ![q] = [mounted |-> TRUE, isTimerRunning |-> FALSE,
                                    timeSpent |-> propTimeSpent(q)]]

startTimer(q) ==
    /\ item[q].mounted /\ ~item[q].isTimerRunning
    /\ item' = [item EXCEPT ![q].isTimerRunning = TRUE]

\* the interval's callback: setTimeSpent(prev => prev + 1)
timerTick(q) ==
    /\ item[q].mounted /\ item[q].isTimerRunning
    /\ item[q].timeSpent < MaxSpent
    /\ item' = [item EXCEPT ![q].timeSpent = @ + 1]

stopTimer(q) ==
    /\ item[q].mounted /\ item[q].isTimerRunning
    /\ item' = [item EXCEPT ![q].isTimerRunning = FALSE]
    /\ itemUpdateProgress(q, Obj([time_spent |-> item[q].timeSpent], {}))

toggleCompletion(q) ==
    /\ item[q].mounted
    /\ itemUpdateProgress(q, toggleCompletionUpdates(q))

toggleRevision(q) ==
    /\ item[q].mounted
    /\ itemUpdateProgress(q, toggleRevisionUpdates(q))

saveNote(q, note) ==
    /\ item[q].mounted
    /\ itemUpdateProgress(q, Obj([note |-> note], {}))

\* the store serves .upsert(payload): no onConflict is named and the payload
\* holds no id, so the conflict target is the primary key with a fresh id and
\* the request is an INSERT
itemUpsert(o) ==
    LET q == ops[o].q
        body == ops[o].payload
        named == NamedColumns(body, FALSE)
    IN /\ ops[o].pc = "sent"
       /\ IF UniqueViolation("u1", q) \/ ForeignKeyViolation(q)
          THEN /\ ops' = [ops EXCEPT ![o].pc = "answered",
                                     ![o].result = IF ForeignKeyViolation(q)
                                                   THEN "fk" ELSE "conflict"]
               /\ UNCHANGED <<rows, nextId>>
          ELSE /\ nextId <= MaxRows
               /\ rows' = rows \cup {NewRow(nextId, "u1", q, body, named)}
               /\ nextId' = nextId + 1
               /\ ops' = [ops EXCEPT ![o].pc = "answered", ![o].result = "ok"]

-----------------------------------------------------------------------------
(* BulkActions *)

BulkIdle ==
    [selected |-> {}, isProcessing |-> FALSE, pc |-> "idle", action |-> "none",
     updates |-> [q \in {} |-> Obj(EmptyVal, {})], result |-> "none",
     live |-> FALSE, count |-> 0]

BulkKinds == {"complete", "revision", "reset"}

newProgress(action) ==
    CASE action = "complete" -> Obj([completed |-> TRUE, completed_at |-> now], {})
      [] action = "revision" -> Obj([marked_for_revision |-> TRUE], {})
      [] OTHER -> Obj([completed |-> FALSE, marked_for_revision |-> FALSE],
                      {"completed_at"})

\* the row built for one selected question
bulkRow(q, action) ==
    Spread(Obj([completed |-> propCompleted(q),
                marked_for_revision |-> propRevision(q),
                note |-> IF propNote(q) = NULL THEN 0 ELSE propNote(q),
                time_spent |-> propTimeSpent(q)], {}),
           newProgress(action))

handleSelectQuestion(q) ==
    /\ ~loading
    /\ includes(questions, q)
    /\ bulk' = [bulk EXCEPT !.selected = IF q \in @ THEN @ \ {q} ELSE @ \cup {q}]

\* performBulkAction(action) up to the await; with an empty selection it
\* shows a toast and returns
performBulkAction(action) ==
    /\ ~loading
    /\ questions # <<>>
    /\ ~bulk.isProcessing
    /\ bulk.pc = "idle"
    /\ bulk.count < MaxBulk
    /\ bulk' = IF bulk.selected = {}
               THEN [bulk EXCEPT !.count = @ + 1]
               ELSE [bulk EXCEPT !.isProcessing = TRUE, !.pc = "sent",
                                 !.action = action,
                                 !.updates = [q \in bulk.selected |->
                                                 bulkRow(q, action)],
                                 !.live = TRUE, !.count = @ + 1]

\* the store serves .upsert(updates, { onConflict: 'user_id,question_id' }):
\* one statement for all the rows
bulkUpsert ==
    LET qs == DOMAIN bulk.updates
        fresh == {q \in qs : RowsOf("u1", q) = {}}
        idOf(q) == nextId + Cardinality({x \in fresh : Ord(x) < Ord(q)})
    IN /\ bulk.pc = "sent"
       /\ IF \E q \in qs : ForeignKeyViolation(q)
          THEN /\ bulk' = [bulk EXCEPT !.pc = "answered", !.result = "fk"]
               /\ UNCHANGED <<rows, nextId>>
          ELSE /\ nextId + Cardinality(fresh) <= MaxRows + 1
               /\ rows' =
                    {IF r.user_id = "u1" /\ r.question_id \in qs
                     THEN MergedRow(r, bulk.updates[r.question_id],
                                    NamedColumns(bulk.updates[r.question_id], TRUE))
                     ELSE r : r \in rows}
                    \cup {NewRow(idOf(q), "u1", q, bulk.updates[q],
                                 NamedColumns(bulk.updates[q], TRUE)) : q \in fresh}
               /\ nextId' = nextId + Cardinality(fresh)
               /\ bulk' = [bulk EXCEPT !.pc = "answered", !.result = "ok"]

\* the parent's onProgressUpdate(progressUpdates): each progress is merged
\* into the entry of its question, or becomes the entry when there is none
RECURSIVE mergeAll(_, _, _)
mergeAll(list, upd, qs) ==
    IF qs = {} THEN list
    ELSE LET q == CHOOSE x \in qs : \A y \in qs : Ord(x) <= Ord(y)
             o == upd[q]
             blank == [question_id |-> q, completed |-> FALSE,
                       marked_for_revision |-> FALSE, note |-> NULL,
                       time_spent |-> NULL, completed_at |-> NULL]
             has == \E i \in 1..Len(list) : list[i].question_id = q
             merged == [i \in 1..Len(list) |->
                          IF list[i].question_id = q /\
                             \A j \in 1..(i - 1) : list[j].question_id # q
                          THEN mergeEntry(list[i], o) ELSE list[i]]
         IN mergeAll(IF has THEN merged ELSE Append(list, mergeEntry(blank, o)),
                     upd, qs \ {q})

\* a response handler that clears the selection whatever the upsert returned
bulkResultClearing ==
    /\ bulk.pc = "answered"
    /\ userProgress' = IF bulk.result = "ok"
                       THEN mergeAll(userProgress, bulk.updates, DOMAIN bulk.updates)
                       ELSE userProgress
    /\ bulk' = [bulk EXCEPT
          !.pc = "idle", !.result = "none", !.live = FALSE,
          !.updates = [q \in {} |-> Obj(EmptyVal, {})],
          !.selected = IF bulk.live THEN {} ELSE @,
          !.isProcessing = IF bulk.live THEN FALSE ELSE @]

\* the response arrives: onProgressUpdate, setSelectedQuestions([]) and, in
\* the finally block, setIsProcessing(false); the setters act on the instance
\* that made the request, which may have been unmounted since
bulkResult ==
    /\ bulk.pc = "answered"
    /\ userProgress' = IF bulk.result = "ok"
                       THEN mergeAll(userProgress, bulk.updates, DOMAIN bulk.updates)
                       ELSE userProgress
    /\ bulk' = [bulk EXCEPT
          !.pc = "idle", !.result = "none", !.live = FALSE,
          !.updates = [q \in {} |-> Obj(EmptyVal, {})],
          !.selected = IF bulk.live /\ bulk.result = "ok" THEN {} ELSE @,
          !.isProcessing = IF bulk.live THEN FALSE ELSE @]

-----------------------------------------------------------------------------
(* DashboardView *)

FetchIds == 1..MaxFetches

IdleFetch == [pc |-> "idle", gotQuestions |-> FALSE, gotProgress |-> FALSE,
              questions |-> <<>>, progress |-> <<>>]

\* the ids of a set of questions as a list ordered by order_index
RECURSIVE ordered(_)
ordered(qs) ==
    IF qs = {} THEN <<>>
    ELSE LET q == CHOOSE x \in qs : \A y \in qs : Ord(x) <= Ord(y)
         IN <<q>> \o ordered(qs \ {q})

\* the progress rows of the user as the list the store returns
progressList(u) ==
    LET mine == {r \in rows : r.user_id = u}
        qs == ordered({r.question_id : r \in mine})
    IN [i \in 1..Len(qs) |-> LocalOf(CHOOSE r \in mine : r.question_id = qs[i])]

\* fetchData() up to the await: setLoading(true) replaces the page by the
\* spinner, which unmounts every component below it
fetchData(f) ==
    /\ fetches[f].pc = "idle"
    /\ \A g \in 1..(f - 1) : fetches[g].pc # "idle"
    /\ fetches' = [fetches EXCEPT ![f].pc = "reading"]
    /\ loading' = TRUE
    /\ item' = [q \in QuestionIds |-> Unmounted]
    /\ bulk' = [bulk EXCEPT !.selected = {}, !.isProcessing = FALSE, !.live = FALSE]

\* questionService.getAllQuestions() is served
fetchQuestions(f) ==
    /\ fetches[f].pc = "reading" /\ ~fetches[f].gotQuestions
    /\ fetches' = [fetches EXCEPT ![f].gotQuestions = TRUE,
                                  ![f].questions = ordered(catalog)]

\* progressService.getUserProgress(user.id) is served
fetchProgress(f) ==
    /\ fetches[f].pc = "reading" /\ ~fetches[f].gotProgress
    /\ fetches' = [fetches EXCEPT ![f].gotProgress = TRUE,
                                  ![f].progress = progressList("u1")]

\* Promise.all resolves: the setters and, in the finally block, setLoading(false)
fetchDone(f) ==
    /\ fetches[f].pc = "reading"
    /\ fetches[f].gotQuestions /\ fetches[f].gotProgress
    /\ questions' = fetches[f].questions
    /\ userProgress' = fetches[f].progress
    /\ loading' = FALSE
    /\ fetches' = [fetches EXCEPT ![f] = [IdleFetch EXCEPT !.pc = "done"]]

\* a handler that adds the returned row to the local list without a look
\* at the entries the list holds
handleProgressUpdateAppending(c) ==
    /\ calls[c].pc = "done"
    /\ calls' = [calls EXCEPT ![c].pc = "applied"]
    /\ userProgress' =
          IF calls[c].result # "ok" THEN userProgress
          ELSE Append(userProgress, LocalOf(calls[c].data))

\* a handler that patches the local list whatever the service call returned
handleProgressUpdateAnyway(c) ==
    /\ calls[c].pc = "done"
    /\ calls' = [calls EXCEPT ![c].pc = "applied"]
    /\ userProgress' =
          IF hasProgress(calls[c].q)
          THEN [userProgress EXCEPT ![firstIndex(calls[c].q)] =
                                        mergeEntry(@, calls[c].updates)]
          ELSE Append(userProgress,
                      mergeEntry([question_id |-> calls[c].q, completed |-> FALSE,
                                  marked_for_revision |-> FALSE, note |-> NULL,
                                  time_spent |-> NULL, completed_at |-> NULL],
                                 calls[c].updates))

\* handleProgressUpdate(questionId, updates) after the service call returned
handleProgressUpdateDone(c) ==
    /\ calls[c].pc = "done"
    /\ calls' = [calls EXCEPT ![c].pc = "applied"]
    /\ userProgress' =
          IF calls[c].result # "ok" THEN userProgress
          ELSE IF hasProgress(calls[c].q)
          THEN [userProgress EXCEPT ![firstIndex(calls[c].q)] =
                                        mergeEntry(@, calls[c].updates)]
          ELSE Append(userProgress, LocalOf(calls[c].data))

\* Dashboard.handleProgressUpdate(questionId, updates): the page of
\* Dashboard.tsx patches its list without a call of the service
dashboardHandleProgressUpdate(q, updates) ==
    userProgress' =
        IF hasProgress(q)
        THEN [userProgress EXCEPT ![firstIndex(q)] = mergeEntry(@, updates)]
        ELSE Append(userProgress,
                    mergeEntry([question_id |-> q, completed |-> FALSE,
                                marked_for_revision |-> FALSE, note |-> NULL,
                                time_spent |-> NULL, completed_at |-> NULL],
                               updates))

\* the response to the item's upsert arrives: on success onProgressUpdate,
\* which is the page's handleProgressUpdate and starts with the service call
itemResult(o) ==
    /\ ops[o].pc = "answered"
    /\ ops' = [ops EXCEPT ![o].pc = "done"]
    /\ IF ops[o].result = "ok"
       THEN \E c \in CallIds :
               /\ \A d \in 1..(c - 1) : calls[d].pc # "idle"
               /\ updateProgressBegin(c, "u1", ops[o].q, ops[o].updates)
       ELSE UNCHANGED calls

\* the overall rate shown by the page and by ProgressStats
RECURSIVE countCompleted(_)
countCompleted(list) ==
    IF list = <<>> THEN 0
    ELSE (IF Head(list).completed THEN 1 ELSE 0) + countCompleted(Tail(list))

\* Math.round((completed / total) * 100), total > 0
roundPercent(completed, total) == (200 * completed + total) \div (2 * total)

completionRate(qs, progress) ==
    IF Len(qs) > 0 THEN roundPercent(countCompleted(progress), Len(qs)) ELSE 0

\* calculateCompletionRate(total, completed)
calculateCompletionRate(total, completed) ==
    IF total > 0 THEN roundPercent(completed, total) ELSE 0

Difficulties == {"Easy", "Medium", "Hard"}

\* The rows of the questions table the aggregation functions are applied to.
\* A text is a sequence of characters.
BankSeq == <<"q1", "q2", "q3", "q4">>
Bank == {BankSeq[i] : i \in 1..Len(BankSeq)}

DifficultyOf(q) ==
    CASE q = "q1" -> "Easy"
      [] q = "q2" -> "Hard"
      [] q = "q3" -> "Medium"
      [] OTHER -> "Easy"

TopicOf(q) == IF q \in {"q1", "q3"} THEN <<"A">> ELSE <<"B">>

\* sheet_id: two sheets hold questions of the topic 'A'
SheetOf(q) == IF q = "q3" THEN "s2" ELSE "s1"
BankSheets == {SheetOf(q) : q \in Bank}

TitleOf(q) ==
    CASE q = "q1" -> <<"A", "b">>
      [] q = "q2" -> <<"T", "a">>
      [] q = "q3" -> <<"T">>
      [] OTHER -> <<"b", " ", "T">>

TagsOf(q) ==
    CASE q = "q1" -> << <<"A">> >>
      [] q = "q2" -> << <<"T">>, <<"a">> >>
      [] q = "q3" -> << <<"a", "B">> >>
      [] OTHER -> <<>>

\* calculateDifficultyStats(questions, userProgress)[d]
calculateDifficultyStats(qs, progress, d) ==
    LET of == {i \in 1..Len(qs) : DifficultyOf(qs[i]) = d}
        some(q) == \E j \in 1..Len(progress) :
                      progress[j].question_id = q /\ progress[j].completed
    IN [total |-> Cardinality(of),
        completed |-> Cardinality({i \in of : some(qs[i])})]

\* the rate ProgressStats shows for a difficulty
difficultyRate(qs, progress, d) ==
    LET stats == calculateDifficultyStats(qs, progress, d)
    IN calculateCompletionRate(stats.total, stats.completed)

-----------------------------------------------------------------------------
(* ProgressCharts: the difficulty and the topic breakdown *)

\* userProgress.find(p => p.question_id === question.id): any record will do
isCompletedAny(progress, q) ==
    \E j \in 1..Len(progress) : progress[j].question_id = q
\* userProgress.find(p => p.question_id === question.id && p.completed)
isCompleted(progress, q) ==
    \E j \in 1..Len(progress) :
        progress[j].question_id = q /\ progress[j].completed

\* data.findIndex(item => item[key] === value), 0 when there is none
findIndex(data, key, value) ==
    IF \E i \in 1..Len(data) : data[i][key] = value
    THEN CHOOSE i \in 1..Len(data) :
            /\ data[i][key] = value
            /\ \A j \in 1..(i - 1) : data[j][key] # value
    ELSE 0

\* total++ and, for a completed question, completed++ on entry i
counted(data, i, done) ==
    [data EXCEPT ![i].total = @ + 1,
                 ![i].completed = IF done THEN @ + 1 ELSE @]

difficultyDataInit ==
    <<[name |-> "Easy", total |-> 0, completed |-> 0],
      [name |-> "Medium", total |-> 0, completed |-> 0],
      [name |-> "Hard", total |-> 0, completed |-> 0]>>

\* questions.forEach(question => { ... }) on the difficulty entries
RECURSIVE difficultyData(_, _)
difficultyData(qs, progress) ==
    IF qs = <<>> THEN difficultyDataInit
    ELSE LET data == difficultyData(SubSeq(qs, 1, Len(qs) - 1), progress)
             question == qs[Len(qs)]
             index == findIndex(data, "name", DifficultyOf(question))
         IN IF index # 0
            THEN counted(data, index, isCompleted(progress, question))
            ELSE data

\* topicData.forEach(item => { item.percentage = ... })
withPercentage(data) ==
    [i \in 1..Len(data) |->
        [data[i] EXCEPT !.percentage =
            IF data[i].total > 0
            THEN roundPercent(data[i].completed, data[i].total) ELSE 0]]

\* an entry that leaves the first question of a topic out of completed
newTopicUncounted(question, done) ==
    [topic |-> TopicOf(question), total |-> 1, completed |-> 0, percentage |-> 0]
\* acc.push({ topic: question.topic, total: 1, completed: isCompleted ? 1 : 0,
\*            percentage: 0 })
newTopic(question, done) ==
    [topic |-> TopicOf(question), total |-> 1,
     completed |-> IF done THEN 1 ELSE 0, percentage |-> 0]

\* questions.reduce((acc, question) => { ... }, []) on the topic entries
RECURSIVE topicCounts(_, _)
topicCounts(qs, progress) ==
    IF qs = <<>> THEN <<>>
    ELSE LET acc == topicCounts(SubSeq(qs, 1, Len(qs) - 1), progress)
             question == qs[Len(qs)]
             done == isCompleted(progress, question)
             existing == findIndex(acc, "topic", TopicOf(question))
         IN IF existing # 0
            THEN counted(acc, existing, done)
            ELSE Append(acc, newTopic(question, done))

topicData(qs, progress) == withPercentage(topicCounts(qs, progress))

\* completionData: the values of the Overall Status chart
completionData(qs, progress) ==
    LET count(test(_)) == Cardinality({j \in 1..Len(progress) : test(progress[j])})
        completed(p) == p.completed
        forRevision(p) == p.marked_for_revision /\ ~p.completed
    IN <<[name |-> "Completed", value |-> count(completed)],
         [name |-> "For Revision", value |-> count(forRevision)],
         [name |-> "Pending", value |-> Len(qs) - count(completed)]>>

\* calculateTopicProgress(questions, userProgress, topic)
calculateTopicProgress(qs, progress, topic) ==
    LET topicQuestions == {i \in 1..Len(qs) : TopicOf(qs[i]) = topic}
        completedInTopic ==
            {i \in topicQuestions :
                \E j \in 1..Len(progress) :
                    progress[j].question_id = qs[i] /\ progress[j].completed}
    IN [topic |-> topic,
        total |-> Cardinality(topicQuestions),
        completed |-> Cardinality(completedInTopic),
        percentage |-> calculateCompletionRate(Cardinality(topicQuestions),
                                               Cardinality(completedInTopic))]

-----------------------------------------------------------------------------
(* AdvancedFeatures: achievements and goals *)

Min(a, b) == IF a <= b THEN a ELSE b

\* userProgress.reduce((sum, p) => sum + (p.time_spent || 0), 0)
RECURSIVE totalTimeSpent(_)
totalTimeSpent(progress) ==
    IF progress = <<>> THEN 0
    ELSE (IF Head(progress).time_spent = NULL THEN 0 ELSE Head(progress).time_spent)
            + totalTimeSpent(Tail(progress))

\* questions.find(q => q.id === p.question_id)?.difficulty
difficultyIn(qs, q) == IF includes(qs, q) THEN DifficultyOf(q) ELSE "undefined"

\* userProgress.filter(p => { ... return p.completed &&
\*                            question?.difficulty === d }).length
difficultyBreakdown(progress, qs, d) ==
    Cardinality({j \in 1..Len(progress) :
                    /\ progress[j].completed
                    /\ difficultyIn(qs, progress[j].question_id) = d})

\* { id, unlocked: v >= target, progress: Math.min(v, target), target }
Achievement(id, v, target) ==
    [id |-> id, unlocked |-> v >= target, progress |-> Min(v, target),
     target |-> target]

\* calculateAchievements(): streak is the streakData of the render whose
\* effect is running
calculateAchievements(progress, qs, streak) ==
    LET completedCount == countCompleted(progress)
    IN <<Achievement("1", completedCount, 1),
         Achievement("2", completedCount, 10),
         Achievement("3", completedCount, 100),
         Achievement("4", streak.longestStreak, 7),
         Achievement("5", difficultyBreakdown(progress, qs, "Easy"), 50),
         Achievement("6", difficultyBreakdown(progress, qs, "Hard"), 25),
         Achievement("7", totalTimeSpent(progress), 180000)>>

\* the day of the week counted from Monday
getDayFromMonday(d) == (d + 3) % 7
\* Date.prototype.getDay() of local day d: 0 is Sunday; day 0 is a Thursday
getDay(d) == (d + 4) % 7

\* weekStart.setDate(weekStart.getDate() - weekStart.getDay());
\* weekStart.setHours(0, 0, 0, 0)
weekStart(t) == DayStart(toDateString(t) - getDay(toDateString(t)))

\* the filter of the daily goal
completedOnDay(p, t) ==
    /\ p.completed
    /\ p.completed_at # NULL
    /\ toDateString(p.completed_at) = toDateString(t)

\* the filter of the weekly goal
completedSinceWeekStart(p, t) ==
    IF ~p.completed \/ p.completed_at = NULL THEN FALSE
    ELSE p.completed_at >= weekStart(t)

\* loadGoals()
loadGoals(progress, t) ==
    <<[id |-> "1", type |-> "daily", target |-> 3,
       current |-> Cardinality({j \in 1..Len(progress) :
                                   completedOnDay(progress[j], t)})],
      [id |-> "2", type |-> "weekly", target |-> 20,
       current |-> Cardinality({j \in 1..Len(progress) :
                                   completedSinceWeekStart(progress[j], t)})]>>

\* {goal.current >= goal.target && ( ... Goal Achieved ... )}
goalAchieved(goal) == goal.current >= goal.target

-----------------------------------------------------------------------------
(* The date utilities of Dashboard.tsx, which take the UTC date of an instant *)

\* date.toISOString().split('T')[0]
toISODate(t) == t \div HoursPerDay

\* getHours() of instant t: the clocks change at 02:00 of the transition day
getHours(t) ==
    LET d == toDateString(t)
        elapsed == t - DayStart(d)
    IN IF tz.kind = "none" \/ d # tz.day \/ elapsed < 2 THEN elapsed
       ELSE IF tz.kind = "spring" THEN elapsed + 1 ELSE elapsed - 1

\* the instant at which the clock of local day d shows hour h
atHour(d, h) ==
    DayStart(d) +
        (IF tz.kind = "none" \/ d # tz.day \/ h < 2 THEN h
         ELSE IF tz.kind = "spring" THEN Max(h - 1, 2) ELSE h + 1)

\* checkDate.setDate(checkDate.getDate() - 1)
dayBefore(t) == atHour(toDateString(t) - 1, getHours(t))

completedOnISODate(progress, date) ==
    \E j \in 1..Len(progress) :
        /\ progress[j].completed
        /\ progress[j].completed_at # NULL
        /\ toISODate(progress[j].completed_at) = date

\* calculateCurrentStreak(userProgress), called at instant t
RECURSIVE calculateCurrentStreak(_, _)
calculateCurrentStreak(progress, checkDate) ==
    IF completedOnISODate(progress, toISODate(checkDate))
    THEN 1 + calculateCurrentStreak(progress, dayBefore(checkDate))
    ELSE 0

\* getQuestionsCompletedToday(userProgress), called at instant t
getQuestionsCompletedToday(progress, t) ==
    Cardinality({j \in 1..Len(progress) :
                    /\ progress[j].completed
                    /\ progress[j].completed_at # NULL
                    /\ toISODate(progress[j].completed_at) = toISODate(t)})

-----------------------------------------------------------------------------
(* Texts *)

\* String.prototype.toLowerCase()
lowerChar(ch) ==
    CASE ch = "A" -> "a"
      [] ch = "B" -> "b"
      [] ch = "T" -> "t"
      [] OTHER -> ch
toLowerCase(text) == [i \in 1..Len(text) |-> lowerChar(text[i])]

\* String.prototype.includes(term)
includesText(text, term) ==
    \E k \in 0..(Len(text) - Len(term)) : SubSeq(text, k + 1, k + Len(term)) = term

\* String.prototype.trim()
RECURSIVE trim(_)
trim(text) ==
    IF text = <<>> THEN text
    ELSE IF Head(text) = " " THEN trim(Tail(text))
    ELSE IF text[Len(text)] = " " THEN trim(SubSeq(text, 1, Len(text) - 1))
    ELSE text

\* the primary weight of a character in the collation of localeCompare
weight(ch) ==
    CASE ch = " " -> 0
      [] lowerChar(ch) = "a" -> 1
      [] lowerChar(ch) = "b" -> 2
      [] lowerChar(ch) = "l" -> 3
      [] OTHER -> 4

\* the sign of a - b
sign(n) == IF n < 0 THEN -1 ELSE IF n > 0 THEN 1 ELSE 0

\* comparison of two texts given by the keys of their characters: the first
\* place where the keys differ decides, and the shorter of two texts comes
\* first when one begins the other
compareKeys(a, b) ==
    LET differ == {i \in 1..Min(Len(a), Len(b)) : a[i] # b[i]}
        first == CHOOSE i \in differ : \A j \in differ : i <= j
    IN IF differ = {} THEN sign(Len(a) - Len(b))
       ELSE sign(a[first] - b[first])

\* a.localeCompare(b): by the letters first, then lower case before upper case
localeCompare(a, b) ==
    LET caseOf(ch) == IF lowerChar(ch) = ch THEN 0 ELSE 1
        weights(text) == [i \in 1..Len(text) |-> weight(text[i])]
        cases(text) == [i \in 1..Len(text) |-> caseOf(text[i])]
    IN IF compareKeys(weights(a), weights(b)) # 0
       THEN compareKeys(weights(a), weights(b))
       ELSE compareKeys(cases(a), cases(b))

-----------------------------------------------------------------------------
(* SearchAndFilter.applyFilters and the filter utilities of Dashboard.tsx *)

\* 'all', the value of a selection that does not filter
AllText == <<"a", "l", "l">>

\* the useState() initial values of SearchAndFilter
DefaultFilters ==
    [searchTerm |-> <<>>, selectedDifficulty |-> "all", selectedTopic |-> AllText,
     selectedStatus |-> "all", sortBy |-> "title", sortOrder |-> "asc"]

\* question.title.toLowerCase().includes(searchTerm.toLowerCase()) ||
\*   question.tags.some(tag => tag.toLowerCase().includes(searchTerm.toLowerCase()))
matchesSearch(q, searchTerm) ==
    \/ includesText(toLowerCase(TitleOf(q)), toLowerCase(searchTerm))
    \/ \E i \in 1..Len(TagsOf(q)) :
          includesText(toLowerCase(TagsOf(q)[i]), toLowerCase(searchTerm))

matchesDifficulty(q, selectedDifficulty) ==
    selectedDifficulty = "all" \/ DifficultyOf(q) = selectedDifficulty

matchesTopic(q, selectedTopic) ==
    selectedTopic = AllText \/ TopicOf(q) = selectedTopic

\* a status test that takes a question without a record for completed
matchesStatusRecorded(q, selectedStatus) ==
    CASE selectedStatus = "completed" -> ~hasProgress(q) \/ propCompleted(q)
      [] selectedStatus = "pending" -> ~propCompleted(q)
      [] selectedStatus = "revision" -> propRevision(q)
      [] OTHER -> TRUE
\* progress = userProgress.find(p => p.question_id === question.id) and the
\* three tests on it
matchesStatus(q, selectedStatus) ==
    CASE selectedStatus = "completed" -> propCompleted(q)
      [] selectedStatus = "pending" -> ~propCompleted(q)
      [] selectedStatus = "revision" -> propRevision(q)
      [] OTHER -> TRUE

\* the comparison of the sort callbacks, before the sort order is applied
comparison(a, b, sortBy, aCompleted, bCompleted) ==
    CASE sortBy = "title" -> localeCompare(TitleOf(a), TitleOf(b))
      [] sortBy = "difficulty" ->
           LET difficultyOrder(d) ==
                   CASE d = "Easy" -> 1 [] d = "Medium" -> 2 [] OTHER -> 3
           IN difficultyOrder(DifficultyOf(a)) - difficultyOrder(DifficultyOf(b))
      [] sortBy = "topic" -> localeCompare(TopicOf(a), TopicOf(b))
      [] sortBy = "completion" ->
           (IF aCompleted THEN 1 ELSE 0) - (IF bCompleted THEN 1 ELSE 0)
      [] OTHER -> 0

\* Array.prototype.sort(compare), which is stable: an entry comes after the
\* entries that compare less and after the earlier entries
\* that compare equal; compare[a, b] is the value of the callback
sort(s, compare) ==
    LET place(i) ==
            1 + Cardinality({j \in 1..Len(s) : compare[s[j], s[i]] < 0})
              + Cardinality({j \in 1..(i - 1) : compare[s[j], s[i]] = 0})
    IN [k \in 1..Len(s) |-> s[CHOOSE i \in 1..Len(s) : place(i) = k]]

\* a sort that leaves the list as it is
applyOrderNone(c, sortOrder) == 0
\* return sortOrder === 'asc' ? comparison : -comparison
applyOrder(c, sortOrder) == IF sortOrder = "asc" THEN c ELSE -c

\* the callback of questions.filter(): matchesSearch && matchesDifficulty &&
\* matchesTopic && matchesStatus
matchesAll(q, f) ==
    /\ matchesSearch(q, f.searchTerm)
    /\ matchesDifficulty(q, f.selectedDifficulty)
    /\ matchesTopic(q, f.selectedTopic)
    /\ matchesStatus(q, f.selectedStatus)

\* applyFilters(): the list handed to onFilteredQuestionsChange
applyFilters(qs, f) ==
    LET keep(q) == matchesAll(q, f)
        compare ==
            [a \in Bank, b \in Bank |->
                applyOrder(comparison(a, b, f.sortBy, propCompleted(a),
                                      propCompleted(b)), f.sortOrder)]
    IN sort(SelectSeq(qs, keep), compare)

\* searchQuestions(questions, searchTerm)
searchQuestions(qs, searchTerm) ==
    IF trim(searchTerm) = <<>> THEN qs
    ELSE LET term == toLowerCase(searchTerm)
             keep(q) ==
                 \/ includesText(toLowerCase(TitleOf(q)), term)
                 \/ includesText(toLowerCase(TopicOf(q)), term)
                 \/ \E i \in 1..Len(TagsOf(q)) :
                       includesText(toLowerCase(TagsOf(q)[i]), term)
         IN SelectSeq(qs, keep)

\* sortQuestions(questions, userProgress, sortBy, sortOrder)
sortQuestions(qs, progress, by, sortOrder) ==
    LET c(a, b) == comparison(a, b, by, isCompleted(progress, a),
                              isCompleted(progress, b))
        compare ==
            [a \in Bank, b \in Bank |->
                IF sortOrder = "desc" THEN -c(a, b) ELSE c(a, b)]
    IN sort(qs, compare)

-----------------------------------------------------------------------------
(* The sheet cards of DashboardView *)

\* filteredQuestions.filter(q => q.sheet_id === sheet.id)
sheetQuestions(sheet) == SelectSeq(filteredQuestions, LAMBDA q : SheetOf(q) = sheet)

\* getUniqueTopics(sheetQuestions)
sheetTopics(sheet) ==
    {TopicOf(sheetQuestions(sheet)[i]) : i \in 1..Len(sheetQuestions(sheet))}

\* sheetQuestions.filter(q => q.topic === topic): the questions listed in
\* the group of the topic
topicQuestions(sheet, topic) ==
    SelectSeq(sheetQuestions(sheet), LAMBDA q : TopicOf(q) = topic)

\* the topicProgress whose percentage the group shows
topicProgress(topic) == calculateTopicProgress(questions, userProgress, topic)

-----------------------------------------------------------------------------
(* Profiles, roles and the row level policies of the catalog *)

Accounts == {"u1", "u2"}
SheetIds == {"s1"}
Roles == {"student", "admin"}

NoProfile == [role |-> "none", created |-> "none", name |-> 0]

\* handle_new_user(): the trigger on auth.users; the listed emails become admin
handle_new_user(u, listed) ==
    /\ profiles[u] = NoProfile
    /\ LET user_role == IF listed THEN "admin" ELSE "student"
       IN profiles' = [profiles EXCEPT
                          ![u] = [role |-> user_role, created |-> user_role, name |-> 0]]

\* get_current_user_role() for auth.uid() = u
get_current_user_role(u) == profiles[u].role

\* the updates profileService.updateProfile may carry (Partial<Profile>)
ProfileUpdates == {[role |-> r] : r \in Roles} \cup {[name |-> 1]}

\* profileService.updateProfile(userId, updates) called by caller, under
\* "Users can update their own profile": USING (auth.uid() = user_id)
updateProfile(caller, userId, updates) ==
    /\ profiles[caller] # NoProfile
    /\ profiles' =
          IF caller = userId
          THEN [profiles EXCEPT ![userId] =
                   [k \in DOMAIN @ |-> IF k \in DOMAIN updates THEN updates[k] ELSE @[k]]]
          ELSE profiles

\* "Admins can manage sheets" / "Admins can manage questions":
\* FOR ALL USING (get_current_user_role() = 'admin')
canManageCatalog(u) == get_current_user_role(u) = "admin"

accepted(u) == audit \cup {[by |-> u, role |-> profiles[u].role,
                            created |-> profiles[u].created]}

WriteKinds == {"insert", "update", "delete"}

\* a write to public.sheets by caller; deleting a sheet cascades to its
\* questions and their progress rows
sheetWrite(caller, kind, sh) ==
    LET applies == IF kind = "insert" THEN sh \notin sheets ELSE sh \in sheets
    IN /\ profiles[caller] # NoProfile
       /\ IF canManageCatalog(caller) /\ applies
          THEN /\ sheets' = CASE kind = "insert" -> sheets \cup {sh}
                              [] kind = "delete" -> sheets \ {sh}
                              [] OTHER -> sheets
               /\ catalog' = IF kind = "delete" THEN {} ELSE catalog
               /\ rows' = IF kind = "delete" THEN {} ELSE rows
               /\ audit' = accepted(caller)
          ELSE UNCHANGED <<sheets, catalog, rows, audit>>

\* a write to public.questions by caller; questions.sheet_id references a sheet
questionWrite(caller, kind, q) ==
    LET applies == IF kind = "insert" THEN q \notin catalog /\ sheets # {}
                   ELSE q \in catalog
    IN /\ profiles[caller] # NoProfile
       /\ IF canManageCatalog(caller) /\ applies
          THEN /\ catalog' = CASE kind = "insert" -> catalog \cup {q}
                               [] kind = "delete" -> catalog \ {q}
                               [] OTHER -> catalog
               /\ rows' = IF kind = "delete"
                          THEN {r \in rows : r.question_id # q} ELSE rows
               /\ audit' = accepted(caller)
          ELSE UNCHANGED <<catalog, rows, audit>>

accessVars == <<profiles, sheets, audit>>

\* one student and one admin have signed up, the catalog has its sheet
AccessSettled ==
    /\ profiles = [u \in Accounts |->
                      IF u = "u1"
                      THEN [role |-> "student", created |-> "student", name |-> 0]
                      ELSE [role |-> "admin", created |-> "admin", name |-> 0]]
    /\ sheets = SheetIds
    /\ audit = {}

-----------------------------------------------------------------------------
(* AdminPanel *)

\* no AdminPanel is mounted
PanelClosed ==
    panel = [user |-> "none", loading |-> TRUE, userRole |-> "student",
             check |-> "idle", role |-> "none",
             fetch |-> "idle", sheets |-> {}, questions |-> {}]

\* the panel is mounted for user u: the useState() initial values, and the
\* effect has called checkAdminAccess() and fetchData(), each up to its
\* first await
panelMount(u) ==
    panel = [user |-> u, loading |-> TRUE, userRole |-> "student",
             check |-> "sent", role |-> "none",
             fetch |-> "sheets", sheets |-> {}, questions |-> {}]

\* checkAdminAccess: the select of profiles.role is served
checkAdminAccessRead ==
    /\ panel.check = "sent"
    /\ panel' = [panel EXCEPT !.check = "answered",
                              !.role = get_current_user_role(panel.user)]

\* checkAdminAccess after the await: if (data) setUserRole(data.role)
checkAdminAccessDone ==
    /\ panel.check = "answered"
    /\ panel' = [panel EXCEPT !.check = "done",
                              !.userRole = IF panel.role = "none" THEN @
                                           ELSE panel.role]

\* fetchData: the select of sheets is served
panelFetchSheets ==
    /\ panel.fetch = "sheets"
    /\ panel' = [panel EXCEPT !.fetch = "questions", !.sheets = sheets]

\* fetchData: the select of questions is served
panelFetchQuestions ==
    /\ panel.fetch = "questions"
    /\ panel' = [panel EXCEPT !.fetch = "answered", !.questions = catalog]

\* fetchData after the second await: the setters, then setLoading(false) in
\* the finally block
panelFetchDone ==
    /\ panel.fetch = "answered"
    /\ panel' = [panel EXCEPT !.fetch = "done", !.loading = FALSE]

\* what the panel renders: the access-denied view, the spinner or the
\* catalog management UI
panelView ==
    IF ~panel.loading /\ panel.userRole # "admin" THEN "denied"
    ELSE IF panel.loading THEN "loading"
    ELSE "manage"

-----------------------------------------------------------------------------
(* The streak specification: AdvancedFeatures re-rendered with a growing     *)
(* userProgress prop; the effect on [userProgress] runs calculateStreaks.    *)

\* hours of the day at which the component is rendered
NowHours == {0, 12, 23}
\* hour of the day of the completion time stamps
StampHours == {12}

NowSet == {HoursPerDay * d + h : d \in (MaxDay - 1)..MaxDay, h \in NowHours}
Stamps == {HoursPerDay * d + h : d \in 0..MaxDay, h \in StampHours}

ProgressRecord(q, completed, completed_at) ==
    [question_id |-> q, completed |-> completed, marked_for_revision |-> FALSE,
     note |-> NULL, time_spent |-> NULL, completed_at |-> completed_at]

clockVars == <<now, tz>>
aggVars == <<userProgress, streakData>>
storeVars == <<rows, nextId, catalog>>
pageVars == <<questions, loading, fetches, notices, item, ops, bulk>>
featureVars == <<achievements, goals>>
filterVars == <<filters, filteredQuestions>>
panelVars == <<panel>>

\* neither AdvancedFeatures nor SearchAndFilter is mounted
ViewsClosed ==
    /\ achievements = <<>>
    /\ goals = <<>>
    /\ filters = DefaultFilters
    /\ filteredQuestions = <<>>

\* a page that shows the question list qs, with no request in flight
Showing(qs) ==
    /\ questions = qs
    /\ loading = FALSE
    /\ fetches = [f \in FetchIds |-> IdleFetch]
    /\ notices = 0
    /\ item = [q \in QuestionIds |-> Unmounted]
    /\ ops = [o \in OpIds |-> IdleOp]
    /\ bulk = BulkIdle

\* no page is open
PageClosed ==
    /\ ViewsClosed
    /\ questions = <<>>
    /\ loading = TRUE
    /\ fetches = [f \in FetchIds |-> IdleFetch]
    /\ notices = 0
    /\ item = [q \in QuestionIds |-> Unmounted]
    /\ ops = [o \in OpIds |-> IdleOp]
    /\ bulk = BulkIdle

StoreEmpty ==
    /\ rows = {}
    /\ nextId = 1
    /\ catalog = QuestionIds

ServiceIdle == calls = [c \in CallIds |-> IdleCall]

StreakDataInit == [currentStreak |-> 0, longestStreak |-> 0, lastActivity |-> NULL]

\* AdvancedFeatures is mounted with an empty userProgress and the effect has
\* run once
InitStreak ==
    /\ now \in NowSet
    /\ tz \in Zones
    /\ userProgress = <<>>
    /\ streakData = StreakDataInit
    /\ StoreEmpty
    /\ ServiceIdle
    /\ Showing(BankSeq)
    /\ achievements = calculateAchievements(<<>>, BankSeq, StreakDataInit)
    /\ goals = loadGoals(<<>>, now)
    /\ filters = DefaultFilters
    /\ filteredQuestions = <<>>
    /\ AccessSettled
    /\ PanelClosed

\* the effect on [userProgress]: calculateStreaks(); calculateAchievements();
\* loadGoals().  setStreakData takes effect with the next render, so
\* calculateAchievements reads the streakData of the render the effect
\* belongs to.
effect(progress) ==
    /\ userProgress' = progress
    /\ streakData' = calculateStreaks(progress, now)
    /\ achievements' = calculateAchievements(progress, questions, streakData)
    /\ goals' = loadGoals(progress, now)
    /\ UNCHANGED <<clockVars, storeVars, calls, pageVars, accessVars, filterVars, panelVars>>

\* the parent passes a userProgress with one more record; useEffect runs.
\* A completed_at is a reading of the clock taken when the record was
\* written, so none is later than now.
PropsChange ==
    /\ Len(userProgress) < MaxProgress
    /\ \E c \in BOOLEAN, at \in {s \in Stamps : s <= now} \cup {NULL} :
          effect(Append(userProgress,
                        ProgressRecord(BankSeq[Len(userProgress) + 1], c, at)))

\* the parent passes a userProgress in which a completed record has been
\* un-completed (toggleCompletion, merged by handleProgressUpdate)
PropsUncomplete ==
    \E i \in 1..Len(userProgress) :
        /\ userProgress[i].completed
        /\ effect([userProgress EXCEPT ![i].completed = FALSE,
                                       ![i].completed_at = NULL])

NextStreak == PropsChange \/ PropsUncomplete

vars == <<now, tz, userProgress, streakData, rows, nextId, catalog, calls,
          questions, loading, fetches, notices, item, ops, bulk,
          profiles, sheets, audit, achievements, goals, filters,
          filteredQuestions, panel>>

SpecStreak == InitStreak /\ [][NextStreak]_vars

-----------------------------------------------------------------------------
(* The service specification: callers of progressService.updateProgress,     *)
(* each call a read of the row followed by an update or an insert.           *)

InitService ==
    /\ now = 0
    /\ tz = [kind |-> "none", day |-> 0]
    /\ userProgress = <<>>
    /\ streakData = StreakDataInit
    /\ StoreEmpty
    /\ ServiceIdle
    /\ PageClosed
    /\ AccessSettled
    /\ PanelClosed

ServiceCall(c) ==
    /\ \A d \in 1..(c - 1) : calls[d].pc # "idle"
    /\ \E u \in Users, q \in QuestionIds, updates \in ServiceUpdates :
          updateProgressBegin(c, u, q, updates)
    /\ UNCHANGED <<clockVars, aggVars, storeVars, pageVars, accessVars,
                   featureVars, filterVars, panelVars>>

ServiceRead(c) ==
    updateProgressRead(c) /\ UNCHANGED <<clockVars, aggVars, catalog, pageVars, accessVars,
                                        featureVars, filterVars, panelVars>>

ServiceWrite(c) ==
    updateProgressWrite(c) /\ UNCHANGED <<clockVars, aggVars, catalog, pageVars, accessVars,
                                        featureVars, filterVars, panelVars>>

NextService ==
    \E c \in CallIds :
        \/ ServiceCall(c)
        \/ ServiceRead(c)
        \/ ServiceWrite(c)

SpecService == InitService /\ [][NextService]_vars

-----------------------------------------------------------------------------
(* The page specification: one student with the dashboard open, an admin    *)
(* who edits the catalog meanwhile.  The store may hold rows the student    *)
(* wrote in an earlier session.                                             *)

\* the row a first toggleCompletion on a question leaves in the store
CompletedRow(id, q) ==
    NewRow(id, "u1", q,
           Obj([completed |-> TRUE, marked_for_revision |-> FALSE,
                time_spent |-> 0, completed_at |-> 0], {}),
           {"completed", "marked_for_revision", "time_spent", "completed_at"})

\* the page has just been mounted: loading is true and the effect has called
\* fetchData(); the questions of earlier are completed in the store
PageOpened(earlier) ==
    /\ now = 1
    /\ tz = [kind |-> "none", day |-> 0]
    /\ userProgress = <<>>
    /\ streakData = StreakDataInit
    /\ catalog = QuestionIds
    /\ rows = {CompletedRow(Ord(q), q) : q \in earlier}
    /\ nextId = Len(QuestionSeq) + 1
    /\ ServiceIdle
    /\ questions = <<>>
    /\ loading = TRUE
    /\ fetches = [f \in FetchIds |->
                     IF f = 1 THEN [IdleFetch EXCEPT !.pc = "reading"] ELSE IdleFetch]
    /\ notices = 0
    /\ item = [q \in QuestionIds |-> Unmounted]
    /\ ops = [o \in OpIds |-> IdleOp]
    /\ bulk = BulkIdle
    /\ ViewsClosed
    /\ AccessSettled
    /\ PanelClosed

Init == \E earlier \in SUBSET QuestionIds : PageOpened(earlier)

\* the questions the student works on
WorkedOn == {"q1"}

fixedVars == <<now, tz, streakData, profiles, sheets, audit, featureVars,
               filterVars, panelVars>>

\* an admin's UPDATE of a question: the questions channel notifies the page
questionUpdated ==
    /\ notices < Cardinality({f \in FetchIds : fetches[f].pc = "idle"})
    /\ notices' = notices + 1

\* an admin's DELETE of a question: ON DELETE CASCADE removes its progress rows
questionDeleted(q) ==
    /\ q \in catalog
    /\ notices < Cardinality({f \in FetchIds : fetches[f].pc = "idle"})
    /\ catalog' = catalog \ {q}
    /\ rows' = {r \in rows : r.question_id # q}
    /\ notices' = notices + 1

AdminUpdate ==
    /\ questionUpdated
    /\ UNCHANGED <<fixedVars, userProgress, storeVars, calls, questions, loading,
                   fetches, item, ops, bulk>>

AdminDelete(q) ==
    /\ questionDeleted(q)
    /\ UNCHANGED <<fixedVars, userProgress, nextId, calls, questions, loading,
                   fetches, item, ops, bulk>>

\* the callback of subscribeToQuestions: fetchData()
Notified(f) ==
    /\ notices > 0
    /\ notices' = notices - 1
    /\ fetchData(f)
    /\ UNCHANGED <<fixedVars, userProgress, storeVars, calls, questions, ops>>

FetchQuestions(f) ==
    /\ fetchQuestions(f)
    /\ UNCHANGED <<fixedVars, userProgress, storeVars, calls, questions, loading,
                   notices, item, ops, bulk>>

FetchProgress(f) ==
    /\ fetchProgress(f)
    /\ UNCHANGED <<fixedVars, userProgress, storeVars, calls, questions, loading,
                   notices, item, ops, bulk>>

FetchDone(f) ==
    /\ fetchDone(f)
    /\ UNCHANGED <<fixedVars, storeVars, calls, notices, item, ops, bulk>>

onlyItem == <<fixedVars, userProgress, storeVars, calls, questions, loading,
              fetches, notices, ops, bulk>>
onlyOps == <<fixedVars, userProgress, storeVars, calls, questions, loading,
             fetches, notices, item, bulk>>
onlyBulk == <<fixedVars, userProgress, storeVars, calls, questions, loading,
              fetches, notices, item, ops>>

ItemMount(q) == itemMount(q) /\ UNCHANGED onlyItem
StartTimer(q) == startTimer(q) /\ UNCHANGED onlyItem
TimerTick(q) == timerTick(q) /\ UNCHANGED onlyItem

StopTimer(q) ==
    /\ stopTimer(q)
    /\ UNCHANGED <<fixedVars, userProgress, storeVars, calls, questions, loading,
                   fetches, notices, bulk>>

ToggleCompletion(q) == toggleCompletion(q) /\ UNCHANGED onlyOps
ToggleRevision(q) == toggleRevision(q) /\ UNCHANGED onlyOps
SaveNote(q) == saveNote(q, 1) /\ UNCHANGED onlyOps

ItemUpsert(o) ==
    /\ itemUpsert(o)
    /\ UNCHANGED <<fixedVars, userProgress, catalog, calls, questions, loading,
                   fetches, notices, item, bulk>>

ItemResult(o) ==
    /\ itemResult(o)
    /\ UNCHANGED <<fixedVars, userProgress, storeVars, questions, loading,
                   fetches, notices, item, bulk>>

PageRead(c) ==
    /\ updateProgressRead(c)
    /\ UNCHANGED <<fixedVars, userProgress, catalog, pageVars>>

PageWrite(c) ==
    /\ updateProgressWrite(c)
    /\ UNCHANGED <<fixedVars, userProgress, catalog, pageVars>>

PageDone(c) ==
    /\ handleProgressUpdateDone(c)
    /\ UNCHANGED <<fixedVars, storeVars, pageVars>>

BulkSelect(q) == handleSelectQuestion(q) /\ UNCHANGED onlyBulk
\* a click on one of the action buttons, which are rendered while the
\* selection is not empty
BulkClick(action) ==
    /\ bulk.selected # {}
    /\ performBulkAction(action)
    /\ UNCHANGED onlyBulk

BulkUpsert ==
    /\ bulkUpsert
    /\ UNCHANGED <<fixedVars, userProgress, catalog, calls, questions, loading,
                   fetches, notices, item, ops>>

BulkResult ==
    /\ bulkResult
    /\ UNCHANGED <<fixedVars, storeVars, calls, questions, loading, fetches,
                   notices, item, ops>>

\* the steps of the page's fetches and of the admin
Catalog ==
    \/ AdminUpdate
    \/ \E q \in QuestionIds : AdminDelete(q)

Fetching ==
    \E f \in FetchIds :
        \/ Notified(f)
        \/ FetchQuestions(f)
        \/ FetchProgress(f)
        \/ FetchDone(f)

\* the steps of the QuestionItems and of the writes they start
Items ==
    \/ \E q \in WorkedOn :
          \/ ItemMount(q)
          \/ StartTimer(q)
          \/ TimerTick(q)
          \/ StopTimer(q)
          \/ ToggleCompletion(q)
          \/ ToggleRevision(q)
          \/ SaveNote(q)
    \/ \E o \in OpIds : ItemUpsert(o) \/ ItemResult(o)
    \/ \E c \in CallIds : PageRead(c) \/ PageWrite(c) \/ PageDone(c)

Next == Catalog \/ Fetching \/ Items

Spec == Init /\ [][Next]_vars

-----------------------------------------------------------------------------
(* The bulk specification: the page also shows BulkActions, which takes the *)
(* page's questions and userProgress as the other components do.            *)

InitBulk == \E earlier \in SUBSET WorkedOn : PageOpened(earlier)

Bulk ==
    \/ \E q \in WorkedOn : BulkSelect(q)
    \/ \E action \in BulkKinds : BulkClick(action)
    \/ BulkUpsert
    \/ BulkResult

NextBulk == AdminUpdate \/ Fetching \/ Items \/ Bulk

SpecBulk == InitBulk /\ [][NextBulk]_vars

-----------------------------------------------------------------------------
(* The access specification: accounts sign up, change their profile and     *)
(* send writes to the catalog tables.                                       *)

InitAccess ==
    /\ now = 0
    /\ tz = [kind |-> "none", day |-> 0]
    /\ userProgress = <<>>
    /\ streakData = StreakDataInit
    /\ rows = {}
    /\ nextId = 1
    /\ catalog = {}
    /\ ServiceIdle
    /\ PageClosed
    /\ profiles = [u \in Accounts |-> NoProfile]
    /\ sheets = {}
    /\ audit = {}
    /\ PanelClosed

idleVars == <<clockVars, aggVars, calls, pageVars, featureVars, filterVars, panelVars>>

SignUp(u, listed) ==
    /\ handle_new_user(u, listed)
    /\ UNCHANGED <<idleVars, storeVars, sheets, audit>>

UpdateProfile(caller, userId, updates) ==
    /\ updateProfile(caller, userId, updates)
    /\ UNCHANGED <<idleVars, storeVars, sheets, audit>>

SheetWrite(caller, kind, sh) ==
    /\ sheetWrite(caller, kind, sh)
    /\ UNCHANGED <<idleVars, nextId, profiles>>

QuestionWrite(caller, kind, q) ==
    /\ questionWrite(caller, kind, q)
    /\ UNCHANGED <<idleVars, nextId, profiles, sheets>>

NextAccess ==
    \/ \E u \in Accounts, listed \in BOOLEAN : SignUp(u, listed)
    \/ \E caller, userId \in Accounts, updates \in ProfileUpdates :
          UpdateProfile(caller, userId, updates)
    \/ \E caller \in Accounts, kind \in WriteKinds, sh \in SheetIds :
          SheetWrite(caller, kind, sh)
    \/ \E caller \in Accounts, kind \in WriteKinds, q \in QuestionIds :
          QuestionWrite(caller, kind, q)

SpecAccess == InitAccess /\ [][NextAccess]_vars

-----------------------------------------------------------------------------
(* The charts specification: ProgressCharts rendered with a question list    *)
(* and a userProgress prop that grows.                                       *)

\* the lists of distinct questions of at most n entries
RECURSIVE ListsUpTo(_)
ListsUpTo(n) ==
    IF n = 0 THEN {<<>>}
    ELSE LET shorter == ListsUpTo(n - 1)
         IN shorter \cup
            {Append(l, q) : l \in {m \in shorter : Len(m) = n - 1},
                            q \in Bank}

NoRepeat(l) == \A i, j \in 1..Len(l) : l[i] = l[j] => i = j
QuestionLists == {l \in ListsUpTo(MaxQuestions) : NoRepeat(l)}

\* a page that shows a fixed question list and writes nothing
PageShowing(qs, progress) ==
    /\ now = 0
    /\ tz = [kind |-> "none", day |-> 0]
    /\ userProgress = progress
    /\ streakData = StreakDataInit
    /\ rows = {}
    /\ nextId = 1
    /\ catalog = Bank
    /\ ServiceIdle
    /\ Showing(qs)
    /\ AccessSettled
    /\ PanelClosed

InitCharts ==
    /\ \E qs \in QuestionLists : PageShowing(qs, <<>>)
    /\ ViewsClosed

\* the parent passes a userProgress with one more record
ChartsProps ==
    /\ Len(userProgress) < MaxRecords
    /\ \E q \in Bank, c, r \in BOOLEAN :
          userProgress' =
              Append(userProgress,
                     [ProgressRecord(q, c, IF c THEN now ELSE NULL)
                         EXCEPT !.marked_for_revision = r])
    /\ UNCHANGED <<clockVars, streakData, storeVars, calls, pageVars,
                   accessVars, featureVars, filterVars, panelVars>>

NextCharts == ChartsProps

SpecCharts == InitCharts /\ [][NextCharts]_vars

-----------------------------------------------------------------------------
(* The filter specification: SearchAndFilter mounted in a page that shows a  *)
(* question list; the student types a term, selects and sorts.  Each change  *)
(* re-renders the component and its effect runs applyFilters.                *)

SearchTerms == {<<>>, <<"b">>, <<"A", "B">>, <<" ">>, <<"t", "a">>}
Statuses == {"all", "completed", "pending", "revision"}
SortKeys == {"title", "difficulty", "topic", "completion"}
Topics == {TopicOf(q) : q \in Bank}

\* the progress of one question: no record, or a record with its two flags
RecordsOf(q) ==
    {<<>>} \cup
    {<<[ProgressRecord(q, c, IF c THEN 0 ELSE NULL)
           EXCEPT !.marked_for_revision = r]>> : c, r \in BOOLEAN}

\* the question lists of the filter specification: one question of each
\* difficulty, in any order
FilterLists == {l \in QuestionLists : \A i \in 1..Len(l) : l[i] # "q4"}

InitFilter ==
    /\ \E qs \in FilterLists, p1 \in RecordsOf("q1") : PageShowing(qs, p1)
    /\ achievements = <<>>
    /\ goals = <<>>
    /\ filters = DefaultFilters
    /\ filteredQuestions = applyFilters(questions, DefaultFilters)

Edited(f) == Cardinality({k \in DOMAIN f : f[k] # DefaultFilters[k]})

\* a state setter of SearchAndFilter, the render and the effect that follow
setFilters(f) ==
    /\ f # filters
    /\ Edited(f) <= MaxEdits
    /\ filters' = f
    /\ filteredQuestions' = applyFilters(questions, f)
    /\ UNCHANGED <<clockVars, aggVars, storeVars, calls, pageVars, accessVars,
                   featureVars, panelVars>>

SetSearchTerm(term) == setFilters([filters EXCEPT !.searchTerm = term])
SelectDifficulty(d) == setFilters([filters EXCEPT !.selectedDifficulty = d])
SelectTopic(t) == setFilters([filters EXCEPT !.selectedTopic = t])
SelectStatus(st) == setFilters([filters EXCEPT !.selectedStatus = st])

\* handleSortChange(newSortBy)
HandleSortChange(newSortBy) ==
    IF newSortBy = filters.sortBy
    THEN setFilters([filters EXCEPT
                        !.sortOrder = IF @ = "asc" THEN "desc" ELSE "asc"])
    ELSE setFilters([filters EXCEPT !.sortBy = newSortBy, !.sortOrder = "asc"])

ClearFilters == setFilters(DefaultFilters)

NextFilter ==
    \/ \E term \in SearchTerms : SetSearchTerm(term)
    \/ \E d \in Difficulties \cup {"all"} : SelectDifficulty(d)
    \/ \E t \in Topics \cup {AllText} : SelectTopic(t)
    \/ \E st \in Statuses : SelectStatus(st)
    \/ \E newSortBy \in SortKeys : HandleSortChange(newSortBy)
    \/ ClearFilters

SpecFilter == InitFilter /\ [][NextFilter]_vars

-----------------------------------------------------------------------------
(* Streak claims *)

\* the calendar days on which the user was active
ActiveDays ==
    {toDateString(userProgress[i].completed_at) :
        i \in {j \in 1..Len(userProgress) :
                  userProgress[j].completed /\ userProgress[j].completed_at # NULL}}

Today == toDateString(now)

\* length of the run of active days that ends at day d
RunEndingAt(d) ==
    IF d \notin ActiveDays THEN 0
    ELSE CHOOSE k \in 1..(MaxDay + 4) :
            /\ \A x \in (d - k + 1)..d : x \in ActiveDays
            /\ (d - k) \notin ActiveDays

ExpectedCurrentStreak ==
    IF Today \in ActiveDays THEN RunEndingAt(Today) ELSE RunEndingAt(Today - 1)

ExpectedLongestStreak ==
    IF ActiveDays = {} THEN 0
    ELSE CHOOSE k \in 1..(MaxDay + 4) :
            /\ \E d \in ActiveDays : RunEndingAt(d) = k
            /\ \A d \in ActiveDays : RunEndingAt(d) <= k

\* C1: currentStreak is 0 when neither today nor yesterday is active, and
\* otherwise the length of the contiguous run of active days ending at the
\* anchor (today if active, else yesterday).
C1_CurrentStreak == streakData.currentStreak = ExpectedCurrentStreak

\* C2: longestStreak is the length of the longest run of calendar-consecutive
\* activity dates (0 without any), whatever today is.
C2_LongestStreak == streakData.longestStreak = ExpectedLongestStreak

-----------------------------------------------------------------------------
(* Upsert claims *)

UniquePairs ==
    \A r1, r2 \in rows :
        (r1.user_id = r2.user_id /\ r1.question_id = r2.question_id) => r1 = r2

\* what a call that ran with no other call beside it must leave behind
SequentialEffect(c) ==
    LET u == calls[c].user
        q == calls[c].q
        supplied == calls[c].updates.val
        before == RowsOf(u, q)
        after == {r \in rows' : r.user_id = u /\ r.question_id = q}
    IN /\ calls'[c].result = "ok"
       /\ Cardinality(after) = 1
       /\ \A a \in after :
            /\ \A k \in DOMAIN supplied : a[k] = supplied[k]
            /\ \A b \in before :
                 \A k \in (DOMAIN b) \ (DOMAIN supplied) : a[k] = b[k]
            /\ before = {} =>
                 \A k \in Columns \ (DOMAIN supplied) : a[k] = ColumnDefault(k)
       /\ \A r \in rows : r \notin before => r \in rows'

\* C3: updateProgress calls made one after the other for the same (user,
\* question) leave exactly one row for the pair: the first inserts it, a later
\* one changes the fields it supplies and no other field of the row.
C3_SequentialUpsert ==
    [][\A c \in CallIds :
          (calls[c].pc = "write" /\ calls'[c].pc = "done" /\ calls[c].alone)
              => SequentialEffect(c)]_vars

\* a second call updated the row the first one inserted and kept a field
\* the first one had set
C3_Witness ==
    \E c \in CallIds :
        /\ calls[c].pc = "done" /\ calls[c].alone /\ calls[c].existing
        /\ calls[c].result = "ok"
        /\ \E r \in RowsOf(calls[c].user, calls[c].q) :
              \E k \in Columns \ DOMAIN calls[c].updates.val :
                  r[k] # ColumnDefault(k)

\* C4: under any interleaving of updateProgress calls for one pair the
\* store holds at most one row for it and every call ends with a row,
\* none with an error.
C4_ConcurrentUpsert ==
    /\ UniquePairs
    /\ \A c \in CallIds : calls[c].pc = "done" => calls[c].result = "ok"

-----------------------------------------------------------------------------
(* Claims on the writes of the components *)

\* C5: a write of QuestionItem.updateProgress that finds a row for its
\* (user, question) in the store updates that row with the values it sends
\* and reports success.
C5_ItemUpsertUpdates ==
    [][\A o \in OpIds :
          (ops[o].pc = "sent" /\ ops'[o].pc = "answered"
             /\ RowsOf("u1", ops[o].q) # {})
          => /\ ops'[o].result = "ok"
             /\ \E r \in rows' :
                   /\ r.user_id = "u1" /\ r.question_id = ops[o].q
                   /\ \A k \in DOMAIN ops[o].payload.val :
                         r[k] = ops[o].payload.val[k]]_vars

\* C6: whatever the student has written, a row with completed = true has a
\* completed_at, in the store and in the page's userProgress.
C6_CompletedHasDate ==
    /\ \A r \in rows : r.completed => r.completed_at # NULL
    /\ \A i \in 1..Len(userProgress) :
          userProgress[i].completed => userProgress[i].completed_at # NULL

\* C7: the time_spent stored for a (user, question) is never negative and no
\* step makes it smaller.
C7_TimeSpentMonotone ==
    [][\A r \in rows, n \in rows' :
          (r.user_id = n.user_id /\ r.question_id = n.question_id
             /\ r.time_spent # NULL)
          => (n.time_spent # NULL /\ n.time_spent >= 0
                /\ n.time_spent >= r.time_spent)]_vars

\* C8: a running stopwatch keeps its ticks until it is stopped, and the stop
\* issues one upsert whose time_spent is the count it has reached; neither a
\* re-render nor a re-fetch of the page takes the count away before.
C8_TicksKept ==
    [][\A q \in QuestionIds :
          (item[q].mounted /\ item[q].isTimerRunning)
          => \/ /\ item'[q].mounted /\ item'[q].isTimerRunning
                /\ item'[q].timeSpent >= item[q].timeSpent
             \/ /\ ~item'[q].isTimerRunning
                /\ Cardinality({o \in OpIds : ops'[o] # ops[o]}) = 1
                /\ \E o \in OpIds :
                      /\ ops[o].pc = "idle" /\ ops'[o].pc = "sent"
                      /\ ops'[o].q = q
                      /\ ops'[o].payload.val.time_spent = item[q].timeSpent]_vars

-----------------------------------------------------------------------------
(* Claims on access *)

\* C9: the store accepts a create, update or delete of a sheet or question
\* only from a caller whose profile role is admin, and never from an account
\* whose profile was created with role student.
C9_CatalogAdminOnly ==
    \A e \in audit : e.role = "admin" /\ e.created # "student"

-----------------------------------------------------------------------------
(* Claims on the statistics *)

InPercent(x) == x \in 0..100

\* C10: every completion percentage the page shows is a whole number from 0
\* to 100, and 0 when there is nothing to complete: the overall rate of
\* ProgressStats and the rate of each difficulty.
C10_PercentInRange ==
    ~loading =>
        /\ InPercent(completionRate(questions, userProgress))
        /\ (Len(questions) = 0 => completionRate(questions, userProgress) = 0)
        /\ \A d \in Difficulties :
              /\ InPercent(difficultyRate(questions, userProgress, d))
              /\ (calculateDifficultyStats(questions, userProgress, d).total = 0
                    => difficultyRate(questions, userProgress, d) = 0)

-----------------------------------------------------------------------------
(* Claims on the breakdowns *)

\* the places of the question list that hold a question of difficulty d
OfDifficulty(d) == {i \in 1..Len(questions) : DifficultyOf(questions[i]) = d}
OfTopic(t) == {i \in 1..Len(questions) : TopicOf(questions[i]) = t}

\* some progress row of the question has completed = true
SomeCompleted(q) ==
    \E j \in 1..Len(userProgress) :
        userProgress[j].question_id = q /\ userProgress[j].completed

CompletedAmong(places) ==
    Cardinality({i \in places : SomeCompleted(questions[i])})

RECURSIVE SumOfTotals(_)
SumOfTotals(data) ==
    IF data = <<>> THEN 0 ELSE Head(data).total + SumOfTotals(Tail(data))

\* C11: the difficulty breakdown, of calculateDifficultyStats and of
\* ProgressCharts, has the three entries Easy, Medium and Hard; the totals sum
\* to the number of questions; for each difficulty total is the number of
\* questions of that difficulty and completed the number of them for which
\* some progress row has completed = true, so completed <= total.
C11_DifficultyBreakdown ==
    LET data == difficultyData(questions, userProgress)
        stats(d) == calculateDifficultyStats(questions, userProgress, d)
    IN /\ [i \in 1..Len(data) |-> data[i].name] = <<"Easy", "Medium", "Hard">>
       /\ SumOfTotals(data) = Len(questions)
       /\ stats("Easy").total + stats("Medium").total + stats("Hard").total
             = Len(questions)
       /\ \A i \in 1..Len(data) :
             /\ data[i].total = Cardinality(OfDifficulty(data[i].name))
             /\ data[i].completed = CompletedAmong(OfDifficulty(data[i].name))
             /\ data[i].completed <= data[i].total
             /\ stats(data[i].name) =
                   [total |-> data[i].total, completed |-> data[i].completed]

\* two Easy questions are listed: one is completed, the other has a progress
\* row that is not; a listed question has no progress row at all
C11_Witness ==
    /\ Cardinality(OfDifficulty("Easy")) = 2
    /\ difficultyData(questions, userProgress)[1].completed = 1
    /\ \E i \in OfDifficulty("Easy") :
          /\ isCompletedAny(userProgress, questions[i])
          /\ ~SomeCompleted(questions[i])
    /\ \E i \in 1..Len(questions) : ~isCompletedAny(userProgress, questions[i])

\* the topics of the question list, each once, in the order of first occurrence
TopicsInOrder ==
    dedupe([i \in 1..Len(questions) |-> TopicOf(questions[i])])

\* C12: the topic breakdown of ProgressCharts has one entry per distinct topic
\* of the question list, in the order of first occurrence; each entry has
\* total = the number of questions of the topic, completed = the number of
\* them with a completed progress row and percentage = the completion rate of
\* the two, as calculateTopicProgress gives them; the totals sum to the number
\* of questions.
C12_TopicBreakdown ==
    LET data == topicData(questions, userProgress)
    IN /\ [i \in 1..Len(data) |-> data[i].topic] = TopicsInOrder
       /\ SumOfTotals(data) = Len(questions)
       /\ \A i \in 1..Len(data) :
             /\ data[i].total = Cardinality(OfTopic(data[i].topic))
             /\ data[i].completed = CompletedAmong(OfTopic(data[i].topic))
             /\ data[i].percentage =
                   calculateCompletionRate(data[i].total, data[i].completed)
             /\ data[i] = calculateTopicProgress(questions, userProgress,
                                                 data[i].topic)

\* three questions of two topics, the topic of the first one coming back
\* last, and the first question of a topic is the completed one
C12_Witness ==
    /\ Len(questions) = 3
    /\ TopicOf(questions[1]) = TopicOf(questions[3])
    /\ TopicOf(questions[1]) # TopicOf(questions[2])
    /\ SomeCompleted(questions[1])
    /\ ~SomeCompleted(questions[3])
    /\ topicData(questions, userProgress)[1].percentage = 50

-----------------------------------------------------------------------------
(* Claims on achievements and goals *)

CompletedRecords == {j \in 1..Len(userProgress) : userProgress[j].completed}

\* the value of the metric of achievement id, from the userProgress and the
\* question list AdvancedFeatures has processed
MetricOf(id) ==
    CASE id \in {"1", "2", "3"} -> Cardinality(CompletedRecords)
      [] id = "4" -> calculateStreaks(userProgress, now).longestStreak
      [] id = "5" ->
           Cardinality({j \in CompletedRecords :
                           /\ includes(questions, userProgress[j].question_id)
                           /\ DifficultyOf(userProgress[j].question_id) = "Easy"})
      [] id = "6" ->
           Cardinality({j \in CompletedRecords :
                           /\ includes(questions, userProgress[j].question_id)
                           /\ DifficultyOf(userProgress[j].question_id) = "Hard"})
      [] OTHER -> totalTimeSpent(userProgress)

\* C13: after AdvancedFeatures has processed a userProgress value, every
\* achievement has progress = min(v, target) and unlocked = (v >= target),
\* v being the value of its metric for that same userProgress: the completed
\* count, the longest streak, the completed count of a difficulty or the
\* total time spent.
C13_AchievementsCurrent ==
    \A i \in 1..Len(achievements) :
        /\ achievements[i].progress =
              Min(MetricOf(achievements[i].id), achievements[i].target)
        /\ achievements[i].unlocked =
              (MetricOf(achievements[i].id) >= achievements[i].target)

\* C14: an achievement that is evaluated as unlocked is evaluated as unlocked
\* after every later change of the progress data: no step of AdvancedFeatures
\* takes an achievement from unlocked to locked.
C14_NeverRelocked ==
    [][\A i \in 1..Len(achievements) :
          achievements[i].unlocked => achievements'[i].unlocked]_vars

\* the completed records whose completed_at falls on a day of the set
CompletedOn(days) ==
    {j \in CompletedRecords :
        /\ userProgress[j].completed_at # NULL
        /\ toDateString(userProgress[j].completed_at) \in days}

\* the calendar week, Sunday to Saturday, that holds local day d
WeekOf(d) == {x \in (d - 6)..(d + 6) : (x + 4) \div 7 = (d + 4) \div 7}

Undated(p) == p.completed /\ p.completed_at = NULL

\* userProgress without its undated records, and userProgress with its
\* undated records stamped now
WithoutUndated == SelectSeq(userProgress, LAMBDA p : ~Undated(p))
WithUndatedStamped ==
    [j \in 1..Len(userProgress) |->
        IF Undated(userProgress[j])
        THEN [userProgress[j] EXCEPT !.completed_at = now]
        ELSE userProgress[j]]

NumberUndated == Cardinality({j \in 1..Len(userProgress) : Undated(userProgress[j])})

\* the entries of the achievements that count completed records
CompletedCounts(list) == [i \in {1, 2, 3, 5, 6} |-> list[i]]

\* C16: a record with completed = true and no completed_at changes neither
\* the current streak, the longest streak, the last activity, the
\* completed-today count nor the goal counts (they are what they would be
\* without the record), and counts in the overall completed count, the
\* difficulty breakdown and the achievements' completed counts exactly as a
\* dated record does.
C16_UndatedRecords ==
    /\ calculateStreaks(userProgress, now) = calculateStreaks(WithoutUndated, now)
    /\ streakData = calculateStreaks(WithoutUndated, now)
    /\ calculateCurrentStreak(userProgress, now)
          = calculateCurrentStreak(WithoutUndated, now)
    /\ getQuestionsCompletedToday(userProgress, now)
          = getQuestionsCompletedToday(WithoutUndated, now)
    /\ goals = loadGoals(WithoutUndated, now)
    /\ countCompleted(userProgress) = countCompleted(WithoutUndated) + NumberUndated
    /\ \A d \in Difficulties :
          calculateDifficultyStats(questions, userProgress, d)
            = calculateDifficultyStats(questions, WithUndatedStamped, d)
    /\ difficultyData(questions, userProgress)
          = difficultyData(questions, WithUndatedStamped)
    /\ CompletedCounts(achievements)
          = CompletedCounts(calculateAchievements(WithUndatedStamped, questions,
                                                  StreakDataInit))
    /\ achievements[1].progress = Min(Cardinality(CompletedRecords), 1)

\* an undated completed record next to a completed record dated today
C16_Witness ==
    /\ NumberUndated = 1
    /\ streakData.currentStreak = 1
    /\ goals[1].current = 1
    /\ getQuestionsCompletedToday(userProgress, now) = 1
    /\ countCompleted(userProgress) = 2

-----------------------------------------------------------------------------
(* Claims on search, filters and sort *)

Listed == {questions[i] : i \in 1..Len(questions)}
Shown == {filteredQuestions[i] : i \in 1..Len(filteredQuestions)}

\* the flags of the question's progress record, false without a record
FlagOf(q, flag) ==
    \E j \in 1..Len(userProgress) :
        userProgress[j].question_id = q /\ userProgress[j][flag]

\* the lower-cased term is a substring of the lower-cased title or of some
\* lower-cased tag
TermInTitleOrTag(q, term) ==
    LET within(text) ==
            \E a, b \in 0..Len(text) :
                a <= b /\ toLowerCase(SubSeq(text, a + 1, b)) = toLowerCase(term)
    IN within(TitleOf(q)) \/ \E i \in 1..Len(TagsOf(q)) : within(TagsOf(q)[i])

StatusHolds(q, status) ==
    CASE status = "completed" -> FlagOf(q, "completed")
      [] status = "pending" -> ~FlagOf(q, "completed")
      [] status = "revision" -> FlagOf(q, "marked_for_revision")
      [] OTHER -> TRUE

\* C17: applyFilters hands over exactly the listed questions that satisfy
\* the search predicate and the difficulty predicate and the topic predicate
\* and the status predicate, each once; a question without a progress record
\* counts as not completed and not marked for revision, so it matches
\* 'pending' and 'all' and never 'completed' or 'revision'.
C17_FiltersCompose ==
    LET others(q) ==
            /\ TermInTitleOrTag(q, filters.searchTerm)
            /\ filters.selectedDifficulty \in {"all", DifficultyOf(q)}
            /\ filters.selectedTopic \in {AllText, TopicOf(q)}
    IN /\ Shown = {q \in Listed :
                      others(q) /\ StatusHolds(q, filters.selectedStatus)}
       /\ Len(filteredQuestions) = Cardinality(Shown)
       /\ \A q \in Listed :
             ~hasProgress(q) =>
                (q \in Shown <=>
                    others(q) /\ filters.selectedStatus \in {"pending", "all"})

\* two filters are set at once, a status and a topic: a question without a
\* record is shown as pending, and the questions that meet only one of the
\* two filters are left out
C17_Witness ==
    /\ filters.selectedStatus = "pending"
    /\ filters.selectedTopic # AllText
    /\ \E q \in Shown : ~hasProgress(q)
    /\ \E q \in Listed \ Shown : TopicOf(q) = filters.selectedTopic
    /\ \E q \in Listed \ Shown : ~FlagOf(q, "completed")

\* C18: in both implementations, applyFilters and searchQuestions, a question
\* is kept by the text search if and only if the lower-cased term is a
\* substring of its lower-cased title or of one of its lower-cased tags; no
\* other field makes it match and the empty term keeps every question.
C18_SearchTitleOrTag ==
    LET kept(q) == TermInTitleOrTag(q, filters.searchTerm)
        onlySearch == [filters EXCEPT !.searchTerm = <<>>] = DefaultFilters
    IN /\ searchQuestions(questions, filters.searchTerm)
             = SelectSeq(questions, kept)
       /\ onlySearch => Shown = {q \in Listed : kept(q)}

\* the place of a difficulty in the order Easy, Medium, Hard
Ordinal(q) ==
    CASE DifficultyOf(q) = "Easy" -> 1
      [] DifficultyOf(q) = "Medium" -> 2
      [] DifficultyOf(q) = "Hard" -> 3

Ascending(list) ==
    \A i, j \in 1..Len(list) : i < j => Ordinal(list[i]) <= Ordinal(list[j])
Descending(list) ==
    \A i, j \in 1..Len(list) : i < j => Ordinal(list[i]) >= Ordinal(list[j])

\* b holds the entries of a, each as often as a does
IsPermutation(a, b) ==
    /\ Len(a) = Len(b)
    /\ \A x \in {a[i] : i \in 1..Len(a)} \cup {b[i] : i \in 1..Len(b)} :
          Cardinality({i \in 1..Len(a) : a[i] = x})
            = Cardinality({i \in 1..Len(b) : b[i] = x})

InOrder(list, sortOrder) ==
    IF sortOrder = "asc" THEN Ascending(list) ELSE Descending(list)

SortedByDifficulty ==
    /\ \A sortOrder \in {"asc", "desc"} :
          LET sorted == sortQuestions(questions, userProgress, "difficulty",
                                      sortOrder)
          IN IsPermutation(sorted, questions) /\ InOrder(sorted, sortOrder)
    /\ IsPermutation(filteredQuestions,
                     SelectSeq(questions, LAMBDA q : q \in Shown))
    /\ Shown = {q \in Listed : matchesAll(q, filters)}
    /\ filters.sortBy = "difficulty"
          => InOrder(filteredQuestions, filters.sortOrder)

\* C19: sorted by difficulty in ascending order every Easy question comes
\* before every Medium one and every Medium before every Hard one, and in
\* descending order the other way round, in sortQuestions and in the sort of
\* applyFilters; the output is a permutation of the filtered input, and no
\* step reorders the question list itself.
C19_DifficultyOrder ==
    []SortedByDifficulty /\ [][questions' = questions]_vars

\* three questions listed Medium, Easy, Hard are shown Hard, Medium, Easy
C19_Witness ==
    /\ filters.sortBy = "difficulty"
    /\ filters.sortOrder = "desc"
    /\ [i \in 1..Len(questions) |-> DifficultyOf(questions[i])]
          = <<"Medium", "Easy", "Hard">>
    /\ [i \in 1..Len(filteredQuestions) |-> DifficultyOf(filteredQuestions[i])]
          = <<"Hard", "Medium", "Easy">>

-----------------------------------------------------------------------------
(* Claim on the date of completion in the store *)

\* C20: a step writes a new completed_at on the row of a (user, question)
\* only when it takes the row from completed = false to completed = true; a
\* row that is completed already keeps the completed_at it has when it is
\* marked completed again.
C20_CompletedAtKept ==
    [][\A r \in rows, n \in rows' :
          (r.user_id = n.user_id /\ r.question_id = n.question_id
             /\ n.completed_at # NULL /\ n.completed_at # r.completed_at)
          => (~r.completed /\ n.completed)]_vars

-----------------------------------------------------------------------------
(* Claims on the frame of a write and on the local copy of the progress *)

\* the fields the user's action supplies in the write the store serves for
\* question q in this step: the updates of a QuestionItem run, of a
\* handleProgressUpdate call, or the newProgress of the bulk action
Supplied(q) ==
    UNION ({Keys(ops[o].updates) :
               o \in {x \in OpIds : ops[x].pc = "sent" /\ ops'[x].pc = "answered"
                                      /\ ops[x].q = q}}
           \cup {Keys(calls[c].updates) :
               c \in {x \in CallIds : calls[x].pc = "write" /\ calls'[x].pc = "done"
                                        /\ calls[x].q = q}}
           \cup {IF bulk.pc = "sent" /\ bulk'.pc = "answered"
                    /\ q \in DOMAIN bulk.updates
                 THEN Keys(newProgress(bulk.action)) ELSE {}})

\* C21: the write of a user action changes, in the stored row of its
\* (user, question), only the fields the action supplies; every other field
\* of the row keeps its value, also when the action is issued before the
\* result of an earlier one has been applied to the local progress.
C21_OtherFieldsKept ==
    [][\A r \in rows, n \in rows' :
          (r.user_id = n.user_id /\ r.question_id = n.question_id)
          => \A c \in Columns \ Supplied(r.question_id) : n[c] = r[c]]_vars

\* the step is the return of call c of handleProgressUpdate
Returns(c) == calls[c].pc = "done" /\ calls'[c].pc = "applied"

\* the step is the return of run o of QuestionItem.updateProgress
Answers(o) == ops[o].pc = "answered" /\ ops'[o].pc = "done"

\* the step is the end of a fetchData run
Loads(f) == fetches[f].pc = "reading" /\ fetches'[f].pc = "done"

\* C22: outside a fetch the local userProgress changes only in the step in
\* which a user action's store write has returned without an error; a write
\* that returns an error leaves userProgress as it was and starts no other
\* request.
C22_PatchAfterWrite ==
    [][/\ userProgress' # userProgress
            => \/ \E f \in FetchIds : Loads(f)
               \/ \E c \in CallIds : Returns(c) /\ calls[c].result = "ok"
       /\ \A c \in CallIds :
             (Returns(c) /\ calls[c].result # "ok")
             => /\ userProgress' = userProgress
                /\ rows' = rows
                /\ ops' = ops
                /\ \A d \in CallIds \ {c} : calls'[d] = calls[d]
       /\ \A o \in OpIds :
             (Answers(o) /\ ops[o].result # "ok")
             => /\ userProgress' = userProgress
                /\ rows' = rows
                /\ calls' = calls
                /\ \A d \in OpIds \ {o} : ops'[d] = ops[d]]_vars

\* a handleProgressUpdate whose service call failed has returned, after the
\* question item's own write had been accepted
C22_Witness ==
    \E c \in CallIds :
        /\ calls[c].pc = "applied"
        /\ calls[c].result # "ok"
        /\ \E o \in OpIds : ops[o].pc = "done" /\ ops[o].result = "ok"
        /\ ~hasProgress(calls[c].q)

\* no user write is in flight, no fetchData run is reading and no realtime
\* notification waits to be delivered
Quiescent ==
    /\ \A o \in OpIds : ops[o].pc \in {"idle", "done"}
    /\ \A c \in CallIds : calls[c].pc \in {"idle", "applied"}
    /\ \A f \in FetchIds : fetches[f].pc # "reading"
    /\ notices = 0

\* the entries of the local list are the user's rows of the store, one each
LocalIsStore ==
    /\ {userProgress[i] : i \in 1..Len(userProgress)}
          = {LocalOf(r) : r \in {x \in rows : x.user_id = "u1"}}
    /\ Len(userProgress) = Cardinality({x \in rows : x.user_id = "u1"})

\* C23: once no user write is in flight and every re-fetch that a realtime
\* notification started has returned, the local userProgress holds the
\* store's rows of the user, in whatever order the responses arrived.
C23_SettlesToStore == Quiescent => LocalIsStore

-----------------------------------------------------------------------------
(* Claims on the two streak computations *)

\* C24: for the progress list and the time of every state, the
\* calculateCurrentStreak of ProgressStats returns the currentStreak that
\* AdvancedFeatures.calculateStreaks computes.
C24_SameCurrentStreak ==
    calculateCurrentStreak(userProgress, now)
        = calculateStreaks(userProgress, now).currentStreak

\* C25: the streakData that calculateStreaks has produced satisfies
\* 0 <= currentStreak <= longestStreak <= number of distinct activity dates,
\* and its lastActivity is the most recent activity date, or empty when
\* there is none.
C25_StreakBounds ==
    /\ 0 <= streakData.currentStreak
    /\ streakData.currentStreak <= streakData.longestStreak
    /\ streakData.longestStreak <= Cardinality(ActiveDays)
    /\ streakData.lastActivity =
          IF ActiveDays = {} THEN NULL
          ELSE CHOOSE d \in ActiveDays : \A e \in ActiveDays : e <= d

-----------------------------------------------------------------------------
(* The patch specification: a page that holds userProgress, its fetches and  *)
(* its handleProgressUpdate, called for any question with any updates and    *)
(* any number of calls in flight.  The handlers of DashboardView and of      *)
(* RevisionProblems call the service first; the one of Dashboard.tsx patches *)
(* the list at once.                                                         *)

InitPatch == \E earlier \in SUBSET WorkedOn : PageOpened(earlier)

\* the updates the components hand to handleProgressUpdate
PatchUpdates == {toggleRevisionUpdates("q1"), Obj([time_spent |-> MaxTime], {})}

\* handleProgressUpdate(questionId, updates) up to the await
HandleProgressUpdate(c) ==
    /\ \A d \in 1..(c - 1) : calls[d].pc # "idle"
    /\ \E q \in WorkedOn, updates \in PatchUpdates :
          updateProgressBegin(c, "u1", q, updates)
    /\ UNCHANGED <<clockVars, aggVars, storeVars, pageVars, accessVars,
                   featureVars, filterVars, panelVars>>

DashboardHandleProgressUpdate ==
    /\ \E q \in WorkedOn, updates \in PatchUpdates :
          dashboardHandleProgressUpdate(q, updates)
    /\ UNCHANGED <<fixedVars, storeVars, calls, pageVars>>

NextPatch ==
    \/ AdminUpdate
    \/ Fetching
    \/ \E c \in CallIds :
          HandleProgressUpdate(c) \/ PageRead(c) \/ PageWrite(c) \/ PageDone(c)
    \/ DashboardHandleProgressUpdate

SpecPatch == InitPatch /\ [][NextPatch]_vars

\* C26: after any sequence of fetches and handleProgressUpdate calls, two
\* calls for a question without a local record that overlap included, the
\* local userProgress holds at most one entry for each question_id.
C26_OneEntryPerQuestion ==
    \A i, j \in 1..Len(userProgress) :
        userProgress[i].question_id = userProgress[j].question_id => i = j

\* two calls for one question were in flight together, one has inserted the
\* row and the other has updated it, both have returned and the list holds
\* one entry for the question
C26_Witness ==
    \E c, d \in CallIds :
        /\ c # d
        /\ calls[c].q = calls[d].q
        /\ calls[c].pc = "applied" /\ calls[d].pc = "applied"
        /\ calls[c].result = "ok" /\ calls[d].result = "ok"
        /\ ~calls[c].alone /\ ~calls[d].alone
        /\ calls[c].existing # calls[d].existing
        /\ Cardinality({i \in 1..Len(userProgress) :
                           userProgress[i].question_id = calls[c].q}) = 1

-----------------------------------------------------------------------------
(* The selection specification: BulkActions in a parent that keeps it        *)
(* mounted and merges what onProgressUpdate hands it; performBulkAction is   *)
(* called with any selection, the empty one included, and an admin may       *)
(* delete a question meanwhile, which makes the upsert fail.                 *)

InitSelect ==
    /\ now = 1
    /\ tz = [kind |-> "none", day |-> 0]
    /\ \E earlier \in SUBSET QuestionIds :
          rows = {CompletedRow(Ord(q), q) : q \in earlier}
    /\ userProgress = progressList("u1")
    /\ streakData = StreakDataInit
    /\ nextId = Len(QuestionSeq) + 1
    /\ catalog = QuestionIds
    /\ ServiceIdle
    /\ Showing(QuestionSeq)
    /\ ViewsClosed
    /\ AccessSettled
    /\ PanelClosed

\* DELETE of a question: ON DELETE CASCADE removes its progress rows
CatalogDelete(q) ==
    /\ q \in catalog
    /\ catalog' = catalog \ {q}
    /\ rows' = {r \in rows : r.question_id # q}
    /\ UNCHANGED <<fixedVars, userProgress, nextId, calls, pageVars>>

SelectQuestion(q) == handleSelectQuestion(q) /\ UNCHANGED onlyBulk
PerformBulkAction(action) == performBulkAction(action) /\ UNCHANGED onlyBulk

NextSelect ==
    \/ \E q \in QuestionIds : CatalogDelete(q)
    \/ \E q \in QuestionIds : SelectQuestion(q)
    \/ \E action \in BulkKinds : PerformBulkAction(action)
    \/ BulkUpsert
    \/ BulkResult

SpecSelect == InitSelect /\ [][NextSelect]_vars

\* the step is a call of performBulkAction
BulkCalled == bulk'.count = bulk.count + 1

\* the step is the end of a call that had sent its upsert
BulkEnds == bulk.pc = "answered" /\ bulk'.pc = "idle"

\* C27: a performBulkAction call with an empty selection sends no request
\* and changes neither the store, the selection nor the progress; a call
\* that has sent its upsert ends with isProcessing = false, with the
\* selection cleared and the progress handed to onProgressUpdate when the
\* upsert succeeded, and with selection and local progress as they were
\* when it failed; the local progress changes in no other step.
C27_BulkActionEnds ==
    [][/\ (BulkCalled /\ bulk.selected = {})
            => /\ bulk'.pc = "idle"
               /\ ~bulk'.isProcessing
               /\ bulk'.selected = bulk.selected
               /\ rows' = rows
               /\ userProgress' = userProgress
       /\ BulkEnds
            => /\ ~bulk'.isProcessing
               /\ bulk.result = "ok"
                    => /\ bulk'.selected = {}
                       /\ userProgress' = mergeAll(userProgress, bulk.updates,
                                                   DOMAIN bulk.updates)
               /\ bulk.result # "ok"
                    => /\ bulk'.selected = bulk.selected
                       /\ userProgress' = userProgress
       /\ userProgress' # userProgress => (BulkEnds /\ bulk.result = "ok")]_vars

\* the upsert of a call with two selected questions has been refused
C27_Witness ==
    /\ bulk.pc = "answered"
    /\ bulk.result # "ok"
    /\ bulk.selected = QuestionIds
    /\ bulk.isProcessing

-----------------------------------------------------------------------------
(* Claims on what the page shows *)

\* C28: the percentage shown for a topic under a sheet is
\* calculateCompletionRate(total, completed) over the questions listed in
\* that group, the filtered questions of the sheet with the topic.
C28_TopicOfSheet ==
    \A sheet \in BankSheets :
        \A topic \in sheetTopics(sheet) :
            LET listed == topicQuestions(sheet, topic)
                done == {i \in 1..Len(listed) : propCompleted(listed[i])}
            IN topicProgress(topic).percentage
                  = calculateCompletionRate(Len(listed), Cardinality(done))

\* the progress list holds one record at most for each question, and none
\* for a question that is not listed
OneRecordEach ==
    /\ \A i, j \in 1..Len(userProgress) :
          userProgress[i].question_id = userProgress[j].question_id => i = j
    /\ \A i \in 1..Len(userProgress) : includes(questions, userProgress[i].question_id)

\* C29: for a progress list with at most one record per question the three
\* values of the Overall Status chart (Completed, For Revision, Pending) are
\* not negative and sum to questions.length.
C29_StatusPartition ==
    OneRecordEach =>
        LET data == completionData(questions, userProgress)
        IN /\ \A i \in 1..3 : data[i].value >= 0
           /\ data[1].value + data[2].value + data[3].value = Len(questions)

-----------------------------------------------------------------------------
(* The panel specification: an account opens AdminPanel; its role check and  *)
(* its data fetch are served and return in any order, while the accounts     *)
(* write to the catalog.                                                     *)

InitPanel ==
    /\ now = 0
    /\ tz = [kind |-> "none", day |-> 0]
    /\ userProgress = <<>>
    /\ streakData = StreakDataInit
    /\ StoreEmpty
    /\ ServiceIdle
    /\ PageClosed
    /\ AccessSettled
    /\ \E u \in Accounts : panelMount(u)

onlyPanel == <<clockVars, aggVars, storeVars, calls, pageVars, accessVars,
               featureVars, filterVars>>

CheckAdminAccessRead == checkAdminAccessRead /\ UNCHANGED onlyPanel
CheckAdminAccessDone == checkAdminAccessDone /\ UNCHANGED onlyPanel
PanelFetchSheets == panelFetchSheets /\ UNCHANGED onlyPanel
PanelFetchQuestions == panelFetchQuestions /\ UNCHANGED onlyPanel
PanelFetchDone == panelFetchDone /\ UNCHANGED onlyPanel

NextPanel ==
    \/ CheckAdminAccessRead
    \/ CheckAdminAccessDone
    \/ PanelFetchSheets
    \/ PanelFetchQuestions
    \/ PanelFetchDone
    \/ \E caller \in Accounts, kind \in WriteKinds, sh \in SheetIds :
          SheetWrite(caller, kind, sh)
    \/ \E caller \in Accounts, kind \in WriteKinds, q \in QuestionIds :
          QuestionWrite(caller, kind, q)

SpecPanel == InitPanel /\ [][NextPanel]_vars

\* C30: in every interleaving of checkAdminAccess and fetchData the panel
\* shows the catalog management UI only when the profile role it has
\* fetched is admin, and it never shows the access-denied view to a user
\* whose profile role is admin.
C30_PanelAccess ==
    /\ panelView = "manage" => (panel.check = "done" /\ panel.role = "admin")
    /\ get_current_user_role(panel.user) = "admin" => panelView # "denied"

=============================================================================
